---- MODULE Spec2Model ----
(***************************************************************************)
(* Feed pagination, refresh and optimistic-like logic of the social app.   *)
(*                                                                         *)
(* The repository holds several implementations of the same feed logic.   *)
(* Each one is modelled as its own state machine; the variable `variant`   *)
(* (chosen in Init, never changed) says which implementation a behaviour   *)
(* runs, so the reachable states are the disjoint union of the variants:   *)
(*   "home"  the HomeScreen / Profile screen with refs                     *)
(*           (src/unnamed/part_001, src/app/(main)/profile.tsx)            *)
(*   "home3" the HomeScreen with useState only (src/unnamed/part_003)       *)
(*   "hook"  the usePagination hook (src/hooks/usePagination.ts)           *)
(*   "feed"  the HomeScreen of src/app/(main)/home.tsx                     *)
(*   "slice" the redux microposts slice                                    *)
(*           (src/redux/microposts/micropostsSlice.tsx)                    *)
(*   "store" the create, update and delete reducers of the same slice,     *)
(*           and the UPDATE branch of handlePostEvent                      *)
(*           (src/app/(main)/home.tsx), on a list whose entries have a     *)
(*           content field                                                 *)
(*   "counts" the comment-count reducers of the same slice, on a list      *)
(*           loaded once, whose entries have a comments field              *)
(*   "likes" the like and unlike reducers of the same slice, on a list     *)
(*           whose entries have a postLikes field                          *)
(*   "compose" the NewPost screen (src/app/(main)/newPost.jsx) creating a  *)
(*           post through the same slice                                   *)
(*   "delete" the deleteMicropost thunk of the same slice over a loaded    *)
(*           list                                                          *)
(*   "profile" handleDeletePost of src/app/(main)/profile.tsx over a       *)
(*           loaded list                                                   *)
(*   "shared" two instances of the HomeScreen of src/unnamed/part_008,     *)
(*           which share the module variable limit                         *)
(*   "api"   the useApiRequest hook (src/hooks/useApiRequest.ts)           *)
(*   "card"  the optimistic PostCard (src/unnamed/part_012)                *)
(*   "card6" the await-first PostCard (src/unnamed/part_006)               *)
(*   "token" the useTokenRefresh hook (src/hooks/useTokenRefresh.ts)       *)
(*   "notifications" the redux notifications slice (src/unnamed/part_015)  *)
(*   "retry" the retry helper (src/unnamed/part_014)                       *)
(*                                                                         *)
(* A feed item is represented by its id: transformForPostCard keeps the    *)
(* id (`...micropost`) and no pagination decision reads another field.     *)
(* Only "store" keeps the content of the items next to their ids.          *)
(*                                                                         *)
(* React scheduling: state updates made by one handler or one promise      *)
(* continuation are batched into one render, and the effects that the      *)
(* render re-triggers run before the next event is handled.  An action of  *)
(* the model is therefore the handler (or continuation) together with the  *)
(* render and the effects it causes.                                       *)
(***************************************************************************)
EXTENDS Integers, Sequences, FiniteSets, TLC

\* ---------------------------------------------------------------- bounds
MaxId      == 2   \* item ids 1..MaxId sent by the unconstrained server
MaxPageLen == 2   \* longest page the unconstrained server sends
MaxN       == 7   \* largest number of items held by the paged server
MaxInflight == 2  \* most requests in flight where the code sets no limit
MaxLikes   == 3   \* largest absolute value the like counter of a card reaches
MaxComments == 2  \* largest comment count an item is incremented to
MaxAttempts == 3  \* largest maxAttempts retry is called with

POSTS_PER_PAGE == 5

\* longest list kept when the server is unconstrained
MaxLen == MaxPageLen + 1

\* longest list kept when the server is paged
MaxPagedLen == MaxN + POSTS_PER_PAGE

\* largest page number requested: one past the last page of the paged server
MaxPageNo == ((MaxN + POSTS_PER_PAGE - 1) \div POSTS_PER_PAGE) + 1

\* total_count as the unconstrained server reports it: absent or zero, one
\* full page of the bound, or more than one page of POSTS_PER_PAGE
TotalCounts == { 0, MaxPageLen, POSTS_PER_PAGE + 1 }

\* largest total_count the store counts up to
MaxTotalCount == POSTS_PER_PAGE + 2

Ids == 1 .. MaxId

SeqsUpTo(S, n) == UNION { [1 .. k -> S] : k \in 0 .. n }

Range(s) == { s[i] : i \in 1 .. Len(s) }

RemoveAt(s, i) == [ j \in 1 .. (Len(s) - 1) |-> IF j < i THEN s[j] ELSE s[j + 1] ]

Min(a, b) == IF a < b THEN a ELSE b

\* Math.ceil(a / b) for a >= 0, b > 0
Ceil(a, b) == (a + b - 1) \div b

NoDup(s) == \A i, j \in 1 .. Len(s) : s[i] = s[j] => i = j

VARIABLES
  variant,              \* which implementation this behaviour runs
  backend,              \* [paged, n]: unconstrained server, or n items in pages
  mounted,              \* the screen / hook has run its mount effect
  unmounted,            \* the screen / hook has been unmounted since
  inflight,             \* requests issued and not yet answered
  lastOp,               \* history: the operation performed by the last step
  loads,                \* history, paged server: the loads completed since mount
  lastRefresh,          \* history, paged server: the list after the last refresh
  \* ---- state; a name used by several implementations is one variable
  content,              \* store: the content field of each entry of microposts
                        \* compose: useState content of the editor
  comments,             \* counts: the comments field of each entry of microposts,
                        \* << >> for a missing or empty array, << c >> for [{ count: c }]
  microposts,           \* home: useState list; slice: state.microposts
  total_count,          \* metadata.total_count, NoMeta while metadata is null;
                        \* feed: total_count of the last response, which the
                        \* screen does not keep
  loading, refreshing,  \* home, hook: useState flags; api: loading
  isRequestInProgress, currentPage, totalPages, loadedPostIds,   \* home: refs
  data, page,           \* hook: useState list and page; home3: useState page;
                        \* api: useState data, << >> while it is null
  error, hasMore,       \* hook, slice; api: error
  status,               \* slice
  postLikes,            \* cards: item.postLikes handed to the card by its parent;
                        \* likes: the postLikes of each entry of microposts
  likes,                \* card: useState list of likes
  isLiked, likeCount,   \* card6: useState flag and counter
  file,                 \* compose: useState uri of the picked media, "null" while null
  limit,                \* shared: the module variable limit
  screens,              \* shared: the useState values of each instance of the screen
  isRefreshingRef,      \* token: isRefreshingRef.current
  refreshCalls,         \* token: where each refreshToken call past the guard stands
  notifications,        \* notifications: state.notifications, [id, read] each
  unreadCount,          \* notifications: state.unreadCount
  pc,                   \* retry: where the call of retry stands
  attempt, maxAttempts, lastError,   \* retry: the loop counter, the argument, the local
  outcomes,             \* retry, history: how each invocation of fn has settled
  settled               \* retry: what the promise of retry has settled with

homeOnly == << isRequestInProgress, currentPage, totalPages, loadedPostIds >>
hookOnly == << data, page >>
fixed    == << variant, backend, postLikes >>
feedVars == << microposts, total_count, loading, refreshing, homeOnly,
               hookOnly, error, hasMore, status >>
cardVars == << likes, isLiked, likeCount >>
retryVars == << pc, attempt, maxAttempts, lastError, outcomes, settled >>
utilVars == << isRefreshingRef, refreshCalls, notifications, unreadCount, retryVars >>

vars == << variant, backend, mounted, unmounted, content, comments, inflight, lastOp, loads, lastRefresh,
           microposts, total_count, loading, refreshing, homeOnly,
           hookOnly, error, hasMore, status, postLikes, cardVars, file, limit,
           screens, utilVars >>

NoMeta == 0 - 1

\* retry: nothing settled yet, and the undefined a fresh lastError holds.
NoResult == [ kind |-> "none", of |-> 0 ]

\* ---------------------------------------------------------------- server
\* The response of the paged server: items (p-1)*P+1 .. min(p*P, n), newest
\* first being id 1, and the total n.
PagedResponse(p) ==
  LET lo == (p - 1) * POSTS_PER_PAGE + 1
      hi == Min(p * POSTS_PER_PAGE, backend.n)
  IN [ feed_items  |-> [ k \in 1 .. (IF hi >= lo THEN hi - lo + 1 ELSE 0) |-> lo + k - 1 ],
       total_count |-> backend.n ]

AnyResponses == [ feed_items : SeqsUpTo(Ids, MaxPageLen), total_count : TotalCounts ]

\* What micropostApi.getAll({page}) may resolve with.
Responses(p) == IF backend.paged THEN { PagedResponse(p) } ELSE AnyResponses

LenCap == IF backend.paged THEN MaxPagedLen ELSE MaxLen

\* ---------------------------------------------------------------- views
\* The feed list, the cursor and the flag of the running implementation.
Items == IF variant = "hook" THEN data ELSE microposts

Page == IF variant \in { "hook", "home3" } THEN page ELSE currentPage

HasMore == IF variant = "home" THEN currentPage < totalPages ELSE hasMore

KnownIds == IF variant = "home" THEN loadedPostIds ELSE Range(Items)

\* The current user and another user, as they appear in postLikes.
Me == "me"

Other == "other"

\* The like state a card shows.
Liked == IF variant = "card" THEN Me \in Range(likes) ELSE isLiked

LikeCount == IF variant = "card" THEN Len(likes) ELSE likeCount

Snapshot == [ items |-> Items, known |-> KnownIds, page |-> Page, hasMore |-> HasMore,
              liked |-> Liked, likeCount |-> LikeCount ]

NoSnap == [ items |-> << >>, known |-> {}, page |-> 0, hasMore |-> FALSE,
            liked |-> FALSE, likeCount |-> 0 ]

\* History: the operation the last step performed; `arg` is the id of the
\* item a create, update or delete was applied with.  `solo` is set by a
\* completion: whether no other operation touched the feed while the request
\* was in flight; a failed completion also sets `pre`, the state when the
\* request was issued, and a successful loadMore the page of that state.
Op(name, ev) ==
  [ name |-> name, ev |-> ev, pre |-> NoSnap, solo |-> FALSE, returned |-> "none",
    arg |-> 0 ]

\* What the promise of a fetch settles with.  loadData returns { success:
\* true } or { success: false } (usePagination.ts lines 71 and 83), execute
\* likewise (useApiRequest.ts lines 39 and 48), and the dispatch of a thunk
\* resolves with a fulfilled or a rejected action (rejectWithValue, slice
\* lines 34-51).  fetchMicroposts of the screens and the like handlers of
\* the cards catch the error and have no return statement.
Returned(ev) ==
  IF variant \in { "hook", "api", "slice" }
    THEN IF ev = "ok" THEN "success" ELSE "failure"
    ELSE "undefined"

Done(r, ev) ==
  [ name |-> r.op, ev |-> ev,
    pre |-> IF ev = "failed" THEN r.pre
            ELSE IF r.op = "loadMore" THEN [ NoSnap EXCEPT !.page = r.pre.page ]
            ELSE NoSnap,
    solo |-> r.solo, returned |-> Returned(ev), arg |-> 0 ]

\* A request: the operation that issued it, the page asked for, the boolean
\* argument of the fetch function (isRefresh / shouldAppend), the
\* microposts.length its closure captured (0 where the function captures
\* none), and the history fields.
Request(op, pg, flag, len, pre) ==
  [ op |-> op, page |-> pg, flag |-> flag, len |-> len, pre |-> pre, solo |-> TRUE ]

\* The requests in flight form a bag: any of them may be answered next.  The
\* bag is kept ordered by operation, page, flag and captured length, so that
\* one bag has one representation.
OpRank(op) ==
  CASE op = "loadInitial" -> 0
    [] op = "refresh" -> 1
    [] op = "loadMore" -> 2
    [] OTHER -> 3

ReqKey(r) == ((OpRank(r.op) * 10 + r.page) * 2 + (IF r.flag THEN 1 ELSE 0)) * 100 + r.len

Insert(reqs, r) ==
  LET k == Cardinality({ i \in 1 .. Len(reqs) : ReqKey(reqs[i]) <= ReqKey(r) })
  IN SubSeq(reqs, 1, k) \o << r >> \o SubSeq(reqs, k + 1, Len(reqs))

\* Requests in flight while another operation acts are no longer alone.
Disturbed(reqs) ==
  [ i \in 1 .. Len(reqs) |-> [ reqs[i] EXCEPT !.solo = FALSE, !.pre = NoSnap ] ]

\* The requests that may be answered next: one index for each distinct
\* request in flight.
Pending == { i \in 1 .. Len(inflight) : \A j \in 1 .. (i - 1) : inflight[j] # inflight[i] }

\* ================================================================ history
\* The history variables follow the step recorded in lastOp'; they are read by
\* the properties only and by no action.
NoLoads == [ init |-> FALSE, more |-> 0, clean |-> FALSE ]

NoRefresh == [ items |-> << >>, n |-> 0 ]

Tracked == backend.paged /\ variant \in { "home", "home3", "hook" }

\* loads: whether the initial load has succeeded, how many loadMore fetches
\* have succeeded, and whether nothing but successful loads has happened.
LoadsAfter(op) ==
  IF ~Tracked \/ ~loads.clean THEN NoLoads
  ELSE IF op.ev = "failed" \/ op.name = "refresh" THEN NoLoads
  ELSE IF op.ev = "ok" /\ op.name = "loadInitial" THEN [ loads EXCEPT !.init = TRUE ]
  ELSE IF op.ev = "ok" /\ op.name = "loadMore" THEN [ loads EXCEPT !.more = loads.more + 1 ]
  ELSE loads

\* lastRefresh: the list left by the last successful refresh and how many
\* refreshes (1 or 2) have completed in a row: since the first of them no
\* loadMore was called and no other fetch was answered with a page.
RefreshAfter(op, items) ==
  IF ~Tracked THEN NoRefresh
  ELSE IF op.ev = "ok" /\ op.name = "refresh"
    THEN [ items |-> items, n |-> IF lastRefresh.n = 0 THEN 1 ELSE 2 ]
  ELSE IF op.ev = "ok" THEN NoRefresh
  ELSE IF op.ev = "issued" /\ op.name = "loadMore" THEN NoRefresh
  ELSE lastRefresh

History ==
  /\ loads' = LoadsAfter(lastOp')
  /\ lastRefresh' = RefreshAfter(lastOp', Items')

\* ================================================================ HomeScreen (part_001)
calculateTotalPages(totalCount) == Ceil(totalCount, POSTS_PER_PAGE)

\* The posts of a page that are not in loadedPostIds (the filter of lines 81, 95).
NotLoaded(posts, known) == SelectSeq(posts, LAMBDA x : x \notin known)

\* fetchMicroposts up to its await: lines 47-61.  `op` is the caller; ids and
\* cur are the refs as the caller left them.  The closure's `refreshing` (line
\* 56) is the value of the render that last changed microposts.length, which
\* is false: the finally block clears it in the same batch.
HomeFetchStart(op, pg, isRefresh, ids, cur) ==
  /\ ~isRequestInProgress
  /\ isRequestInProgress' = TRUE
  /\ refreshing' = IF isRefresh THEN TRUE ELSE refreshing
  /\ loading' = IF isRefresh THEN loading ELSE TRUE
  /\ inflight' = Insert(Disturbed(inflight),
                         Request(op, pg, isRefresh, Len(microposts),
                                 [ Snapshot EXCEPT !.known = ids, !.page = cur,
                                                   !.hasMore = cur < totalPages ]))

\* The mount effect, lines 129-135.
HomeMount ==
  /\ variant = "home" /\ ~mounted
  /\ mounted' = TRUE
  /\ loadedPostIds' = {}
  /\ currentPage' = 1
  /\ HomeFetchStart("loadInitial", 1, FALSE, {}, 1)
  /\ lastOp' = Op("mount", "issued")
  /\ UNCHANGED << utilVars, limit, screens, file, cardVars, fixed, unmounted, comments, content, microposts, total_count, totalPages, hookOnly, error, hasMore, status >>
  /\ History

\* handleRefresh, lines 148-153.
HomeHandleRefresh ==
  /\ variant = "home" /\ mounted /\ ~unmounted
  /\ IF ~isRequestInProgress
       THEN /\ HomeFetchStart("refresh", 1, TRUE, loadedPostIds, currentPage)
            /\ lastOp' = Op("refresh", "issued")
       ELSE /\ lastOp' = Op("refresh", "noop")
            /\ UNCHANGED << inflight, isRequestInProgress, loading, refreshing >>
  /\ UNCHANGED << utilVars, limit, screens, file, cardVars, fixed, unmounted, comments, content, mounted, microposts, total_count,
                  currentPage, totalPages, loadedPostIds, hookOnly, error, hasMore, status >>
  /\ History

\* The condition of handleLoadMore, line 161.
HomeCanLoadMore == ~isRequestInProgress /\ currentPage < totalPages /\ ~refreshing

\* handleLoadMore, lines 156-164.
HomeHandleLoadMore ==
  /\ variant = "home" /\ mounted /\ ~unmounted
  /\ IF HomeCanLoadMore
       THEN /\ currentPage + 1 <= MaxPageNo
            /\ HomeFetchStart("loadMore", currentPage + 1, FALSE, loadedPostIds, currentPage)
            /\ lastOp' = Op("loadMore", "issued")
       ELSE /\ lastOp' = Op("loadMore", "noop")
            /\ UNCHANGED << inflight, isRequestInProgress, loading, refreshing >>
  /\ UNCHANGED << utilVars, limit, screens, file, cardVars, fixed, unmounted, comments, content, mounted, microposts, total_count,
                  currentPage, totalPages, loadedPostIds, hookOnly, error, hasMore, status >>
  /\ History

\* The list after the merge of lines 79-106.
HomeMergedPosts(r, newPosts) ==
  IF Len(newPosts) = 0 THEN microposts
  ELSE IF r.flag THEN newPosts \o microposts
  ELSE microposts \o newPosts

\* currentPage.current after the merge (lines 91 and 104).
HomeMergedPage(r, newPosts) ==
  IF Len(newPosts) = 0 THEN currentPage
  ELSE IF r.flag THEN Ceil(Len(newPosts) + r.len, POSTS_PER_PAGE)
  ELSE r.page

\* The render after a continuation, and the mount effect it re-triggers:
\* fetchMicroposts is re-created when microposts.length changes (deps, line
\* 115), the effect of lines 129-145 depends on fetchMicroposts and runs
\* again: it empties loadedPostIds, sets currentPage to 1 and fetches page 1.
\* isRequestInProgress is false here (the finally block has run).
HomeAfterRender(rest, posts, ids, pg) ==
  IF Len(posts) # Len(microposts)
    THEN /\ loadedPostIds' = {}
         /\ currentPage' = 1
         /\ isRequestInProgress' = TRUE
         /\ loading' = TRUE
         /\ inflight' = Insert(Disturbed(rest),
                                Request("loadInitial", 1, FALSE, Len(posts),
                                        [ Snapshot EXCEPT !.items = posts, !.known = {},
                                            !.page = 1, !.hasMore = 1 < totalPages' ]))
    ELSE /\ loadedPostIds' = ids
         /\ currentPage' = pg
         /\ isRequestInProgress' = FALSE
         /\ loading' = FALSE
         /\ inflight' = Disturbed(rest)

\* fetchMicroposts after a successful await: lines 63-106 and 109-113.
HomeFetchOk ==
  /\ variant = "home" /\ ~unmounted
  /\ \E i \in Pending :
       LET r == inflight[i] IN
       \E resp \in Responses(r.page) :
         LET newPosts == NotLoaded(resp.feed_items, loadedPostIds)
             posts    == HomeMergedPosts(r, newPosts)
         IN /\ Len(posts) <= LenCap
            /\ microposts' = posts
            /\ total_count' = resp.total_count
            /\ totalPages' = calculateTotalPages(resp.total_count)
            /\ refreshing' = FALSE
            /\ HomeAfterRender(RemoveAt(inflight, i), posts,
                               loadedPostIds \cup Range(newPosts),
                               HomeMergedPage(r, newPosts))
            /\ lastOp' = Done(r, "ok")
  /\ UNCHANGED << utilVars, limit, screens, file, cardVars, fixed, unmounted, comments, content, mounted, hookOnly, error, hasMore, status >>
  /\ History

\* Mutant of HomeFinally: the flags are cleared on the success path only.
HomeFinally_Missing == UNCHANGED << isRequestInProgress, loading, refreshing >>

\* The finally block of fetchMicroposts, lines 109-113.
HomeFinally ==
  /\ isRequestInProgress' = FALSE
  /\ loading' = FALSE
  /\ refreshing' = FALSE

\* fetchMicroposts after a rejected await: lines 107-113.
HomeFetchFail ==
  /\ variant = "home" /\ ~unmounted
  /\ \E i \in Pending :
       LET r == inflight[i] IN
         /\ inflight' = RemoveAt(inflight, i)
         /\ HomeFinally
         /\ lastOp' = Done(r, "failed")
  /\ UNCHANGED << utilVars, limit, screens, file, cardVars, fixed, unmounted, comments, content, mounted, microposts, total_count,
                  currentPage, totalPages, loadedPostIds, hookOnly, error, hasMore, status >>
  /\ History

\* The screen is unmounted while a fetch is outstanding (an idle screen that
\* is unmounted takes no further step): the cleanup of the effect, lines
\* 141-143, stops the notification timer and leaves the fetch alone.
HomeUnmount ==
  /\ variant = "home" /\ mounted /\ ~unmounted
  /\ inflight # << >>
  /\ unmounted' = TRUE
  /\ lastOp' = Op("unmount", "done")
  /\ UNCHANGED << utilVars, limit, screens, file, cardVars, fixed, mounted, content, comments, inflight, feedVars >>
  /\ History

\* fetchMicroposts after a successful await, once the screen is unmounted:
\* lines 63-106 and 109-113 run as before.  React ignores the state setters
\* of an unmounted component and renders nothing, the refs are written.
HomeFetchOkUnmounted ==
  /\ variant = "home" /\ unmounted
  /\ \E i \in Pending :
       LET r == inflight[i] IN
       \E resp \in Responses(r.page) :
         LET newPosts == NotLoaded(resp.feed_items, loadedPostIds)
         IN /\ totalPages' = calculateTotalPages(resp.total_count)
            /\ loadedPostIds' = loadedPostIds \cup Range(newPosts)
            /\ currentPage' = HomeMergedPage(r, newPosts)
            /\ isRequestInProgress' = FALSE
            /\ inflight' = RemoveAt(inflight, i)
            /\ lastOp' = Op(r.op, "late")
  /\ UNCHANGED << utilVars, limit, screens, file, cardVars, fixed, unmounted, comments, content, mounted, microposts, total_count, loading,
                  refreshing, hookOnly, error, hasMore, status >>
  /\ History

\* fetchMicroposts after a rejected await, once the screen is unmounted:
\* lines 107-113.
HomeFetchFailUnmounted ==
  /\ variant = "home" /\ unmounted
  /\ \E i \in Pending :
       /\ isRequestInProgress' = FALSE
       /\ inflight' = RemoveAt(inflight, i)
       /\ lastOp' = Op(inflight[i].op, "late")
  /\ UNCHANGED << utilVars, limit, screens, file, cardVars, fixed, unmounted, comments, content, mounted, microposts, total_count, loading,
                  refreshing, currentPage, totalPages, loadedPostIds, hookOnly, error,
                  hasMore, status >>
  /\ History

HomeNext ==
  \/ HomeUnmount
  \/ HomeFetchOkUnmounted
  \/ HomeFetchFailUnmounted
  \/ HomeMount
  \/ HomeHandleRefresh
  \/ HomeHandleLoadMore
  \/ HomeFetchOk
  \/ HomeFetchFail

\* ================================================================ HomeScreen (part_003)
\* This screen keeps everything in useState.  fetchMicroposts is re-created
\* when loading, refreshing or microposts.length changes (deps, line 84), and
\* the effect of lines 95-109 runs again whenever it is.

\* Line 39 lets a call through unless the render the call belongs to shows a
\* load that is not a refresh.
Home3Passes(ld, rf) == ~(ld /\ ~rf)

\* The number of requests the effect of lines 95-109 issues when it runs in a
\* render showing (ld, rf): its call fetchMicroposts(1, false) passes line 39
\* or not; if it passes and line 42 changes loading, the next render
\* re-creates fetchMicroposts, the effect runs once more and that call is
\* judged on (TRUE, rf).
Home3EffectFetches(ld, rf) ==
  IF ~Home3Passes(ld, rf) THEN 0
  ELSE IF ld THEN 1
  ELSE IF Home3Passes(TRUE, rf) THEN 2 ELSE 1

\* A request of this screen.  The microposts.length captured by the closure
\* is read only when shouldAppend (line 69), and is kept only then; the
\* history fields are not kept.
Home3Request(op, pg, shouldAppend, len) ==
  [ Request(op, pg, shouldAppend, IF shouldAppend THEN len ELSE 0, NoSnap)
      EXCEPT !.solo = FALSE ]

\* The effect of lines 95-109 run in a render showing (ld, rf, posts), with
\* reqs in flight; `op` names the handler that caused the render.
Home3Effect(op, ld, rf, posts, reqs) ==
  LET n == Home3EffectFetches(ld, rf)
      r == Home3Request(op, 1, FALSE, Len(posts))
  IN /\ Len(reqs) + n <= MaxInflight
     /\ page' = 1
     /\ loading' = (ld \/ n > 0)
     /\ inflight' = IF n = 0 THEN reqs
                     ELSE IF n = 1 THEN Insert(reqs, r)
                     ELSE Insert(Insert(reqs, r), r)

\* The render after a handler or continuation that left (ld, rf, posts, pg,
\* reqs): the effect runs if one of the deps of line 84 changed.
Home3AfterRender(op, ld, rf, posts, pg, reqs) ==
  IF << ld, rf, Len(posts) >> # << loading, refreshing, Len(microposts) >>
    THEN Home3Effect(op, ld, rf, posts, reqs)
    ELSE /\ loading' = ld
         /\ page' = pg
         /\ inflight' = reqs

\* The first render and its effect.
Home3Mount ==
  /\ variant = "home3" /\ ~mounted
  /\ mounted' = TRUE
  /\ Home3Effect("loadInitial", loading, refreshing, microposts, inflight)
  /\ lastOp' = Op("mount", "issued")
  /\ UNCHANGED << utilVars, limit, screens, file, cardVars, fixed, unmounted, comments, content, microposts, total_count, refreshing, homeOnly, data,
                  error, hasMore, status >>
  /\ History

\* handleRefresh, lines 112-116: setRefreshing(true), then fetchMicroposts(1,
\* false) of the current render, then the render.
Home3HandleRefresh ==
  /\ variant = "home3" /\ mounted /\ ~unmounted
  /\ LET passes == Home3Passes(loading, refreshing)
         reqs == IF passes
                   THEN Insert(inflight, Home3Request("refresh", 1, FALSE, Len(microposts)))
                   ELSE inflight
     IN /\ Len(reqs) <= MaxInflight
        /\ refreshing' = TRUE
        /\ Home3AfterRender("refresh", loading \/ passes, TRUE, microposts, page, reqs)
        /\ lastOp' = Op("refresh", IF inflight' # inflight THEN "issued" ELSE "noop")
  /\ UNCHANGED << utilVars, limit, screens, file, cardVars, fixed, unmounted, comments, content, mounted, microposts, total_count, homeOnly, data,
                  error, hasMore, status >>
  /\ History

\* The condition of handleLoadMore, line 120.
Home3CanLoadMore == ~loading /\ hasMore

\* handleLoadMore, lines 119-124.
Home3HandleLoadMore ==
  /\ variant = "home3" /\ mounted /\ ~unmounted
  /\ IF Home3CanLoadMore
       THEN /\ page + 1 <= MaxPageNo
            /\ Len(inflight) < MaxInflight
            /\ Home3AfterRender("loadInitial", TRUE, refreshing, microposts, page,
                                Insert(inflight, Home3Request("loadMore", page + 1, TRUE,
                                                              Len(microposts))))
            /\ lastOp' = Op("loadMore", "issued")
       ELSE /\ lastOp' = Op("loadMore", "noop")
            /\ UNCHANGED << inflight, loading, page >>
  /\ UNCHANGED << utilVars, limit, screens, file, cardVars, fixed, unmounted, comments, content, mounted, microposts, total_count, refreshing, homeOnly,
                  data, error, hasMore, status >>
  /\ History

\* setHasMore of lines 67-71; r.len is the microposts.length of the closure.
Home3HasMore(r, transformedMicroposts, totalCount) ==
  /\ Len(transformedMicroposts) > 0
  /\ (IF r.flag THEN r.len + Len(transformedMicroposts) ELSE Len(transformedMicroposts))
       < totalCount

\* fetchMicroposts after a successful await: lines 47-76 and 79-82.
Home3FetchOk ==
  /\ variant = "home3" /\ ~unmounted
  /\ \E i \in Pending :
       LET r == inflight[i] IN
       \E resp \in Responses(r.page) :
         LET transformedMicroposts == resp.feed_items
             posts == IF r.flag THEN microposts \o transformedMicroposts
                      ELSE transformedMicroposts
         IN /\ Len(posts) <= LenCap
            /\ microposts' = posts
            /\ total_count' = resp.total_count
            /\ hasMore' = Home3HasMore(r, transformedMicroposts, resp.total_count)
            /\ refreshing' = FALSE
            /\ Home3AfterRender("loadInitial", FALSE, FALSE, posts,
                                IF r.flag THEN r.page ELSE page, RemoveAt(inflight, i))
            /\ lastOp' = Done(r, "ok")
  /\ UNCHANGED << utilVars, limit, screens, file, cardVars, fixed, unmounted, comments, content, mounted, homeOnly, data, error, status >>
  /\ History

\* fetchMicroposts after a rejected await: lines 77-82.
Home3FetchFail ==
  /\ variant = "home3" /\ ~unmounted
  /\ \E i \in Pending :
       LET r == inflight[i] IN
         /\ refreshing' = FALSE
         /\ Home3AfterRender("loadInitial", FALSE, FALSE, microposts, page,
                             RemoveAt(inflight, i))
         /\ lastOp' = Done(r, "failed")
  /\ UNCHANGED << utilVars, limit, screens, file, cardVars, fixed, unmounted, comments, content, mounted, microposts, total_count, homeOnly, data,
                  error, hasMore, status >>
  /\ History

\* The screen is unmounted; the effect of lines 95-109 returns no cleanup.
Home3Unmount ==
  /\ variant = "home3" /\ mounted /\ ~unmounted
  /\ inflight # << >>
  /\ unmounted' = TRUE
  /\ lastOp' = Op("unmount", "done")
  /\ UNCHANGED << utilVars, limit, screens, file, cardVars, fixed, mounted, content, comments, inflight, feedVars >>
  /\ History

\* fetchMicroposts after its await, once the screen is unmounted: lines
\* 47-82 call state setters only, and React ignores them.
Home3FetchUnmounted ==
  /\ variant = "home3" /\ unmounted
  /\ \E i \in Pending :
       /\ inflight' = RemoveAt(inflight, i)
       /\ lastOp' = Op(inflight[i].op, "late")
  /\ UNCHANGED << utilVars, limit, screens, file, cardVars, fixed, unmounted, comments, content, mounted, feedVars >>
  /\ History

Home3Next ==
  \/ Home3Unmount
  \/ Home3FetchUnmounted
  \/ Home3Mount
  \/ Home3HandleRefresh
  \/ Home3HandleLoadMore
  \/ Home3FetchOk
  \/ Home3FetchFail

\* ================================================================ usePagination
\* extractData of the caller of the hook: the items of a list response.  The
\* options are taken to be stable across renders, so that loadData keeps its
\* identity and the effect of lines 90-94 runs once.
extractData(response) == response.feed_items

\* loadData up to its await: lines 48-57.
HookLoadDataStart(op, pageNum, shouldAppend) ==
  /\ Len(inflight) < MaxInflight
  /\ loading' = IF shouldAppend THEN TRUE ELSE loading
  /\ refreshing' = IF shouldAppend THEN refreshing ELSE TRUE
  /\ error' = FALSE
  /\ inflight' = Insert(Disturbed(inflight), Request(op, pageNum, shouldAppend, 0, Snapshot))

\* The effect of lines 90-94 (autoLoad, initialPage = 1).
HookMount ==
  /\ variant = "hook" /\ ~mounted
  /\ mounted' = TRUE
  /\ HookLoadDataStart("loadInitial", 1, FALSE)
  /\ lastOp' = Op("mount", "issued")
  /\ UNCHANGED << utilVars, limit, screens, file, cardVars, fixed, unmounted, comments, content, microposts, total_count, homeOnly, hookOnly, hasMore, status >>
  /\ History

\* refresh, lines 97-100.
HookRefresh ==
  /\ variant = "hook" /\ mounted /\ ~unmounted
  /\ page' = 1
  /\ HookLoadDataStart("refresh", 1, FALSE)
  /\ lastOp' = Op("refresh", "issued")
  /\ UNCHANGED << utilVars, limit, screens, file, cardVars, fixed, unmounted, comments, content, mounted, microposts, total_count, homeOnly, data, hasMore, status >>
  /\ History

\* The condition of loadMore, line 104.
HookCanLoadMore == ~loading /\ hasMore

\* loadMore, lines 103-110.
HookLoadMore ==
  /\ variant = "hook" /\ mounted /\ ~unmounted
  /\ IF HookCanLoadMore
       THEN /\ page + 1 <= MaxPageNo
            /\ page' = page + 1
            /\ HookLoadDataStart("loadMore", page + 1, TRUE)
            /\ lastOp' = Op("loadMore", "issued")
       ELSE /\ lastOp' = Op("loadMore", "noop")
            /\ UNCHANGED << inflight, loading, refreshing, error, page >>
  /\ UNCHANGED << utilVars, limit, screens, file, cardVars, fixed, unmounted, comments, content, mounted, microposts, total_count, homeOnly, data, hasMore, status >>
  /\ History

\* setData of line 61.
HookMergedData(shouldAppend, extractedData) ==
  IF shouldAppend THEN data \o extractedData ELSE extractedData

\* The hook reads nothing but the items of a response (extractMeta is not
\* modelled), so one total_count stands for all.
HookResponses(p) == { r \in Responses(p) : backend.paged \/ r.total_count = 0 }

\* loadData after a successful await: lines 58-71 and 81-84.
HookLoadOk ==
  /\ variant = "hook" /\ ~unmounted
  /\ \E i \in Pending :
       LET r == inflight[i] IN
       \E resp \in HookResponses(r.page) :
         LET extractedData == extractData(resp)
         IN /\ Len(HookMergedData(r.flag, extractedData)) <= LenCap
            /\ data' = HookMergedData(r.flag, extractedData)
            /\ hasMore' = (Len(extractedData) > 0)
            /\ loading' = FALSE
            /\ refreshing' = FALSE
            /\ inflight' = Disturbed(RemoveAt(inflight, i))
            /\ lastOp' = Done(r, "ok")
  /\ UNCHANGED << utilVars, limit, screens, file, cardVars, fixed, unmounted, comments, content, mounted, microposts, total_count, homeOnly, page, error, status >>
  /\ History

\* loadData after a rejected await: lines 72-84.
HookLoadFail ==
  /\ variant = "hook" /\ ~unmounted
  /\ \E i \in Pending :
       LET r == inflight[i] IN
         /\ error' = TRUE
         /\ loading' = FALSE
         /\ refreshing' = FALSE
         /\ inflight' = Disturbed(RemoveAt(inflight, i))
         /\ lastOp' = Done(r, "failed")
  /\ UNCHANGED << utilVars, limit, screens, file, cardVars, fixed, unmounted, comments, content, mounted, microposts, total_count, homeOnly, hookOnly, hasMore, status >>
  /\ History

\* The component that uses the hook is unmounted; the effect of lines 89-94
\* returns no cleanup.
HookUnmount ==
  /\ variant = "hook" /\ mounted /\ ~unmounted
  /\ inflight # << >>
  /\ unmounted' = TRUE
  /\ lastOp' = Op("unmount", "done")
  /\ UNCHANGED << utilVars, limit, screens, file, cardVars, fixed, mounted, content, comments, inflight, feedVars >>
  /\ History

\* loadData after its await, once the component is unmounted: lines 57-84
\* call state setters only, and React ignores them.
HookLoadUnmounted ==
  /\ variant = "hook" /\ unmounted
  /\ \E i \in Pending :
       /\ inflight' = RemoveAt(inflight, i)
       /\ lastOp' = Op(inflight[i].op, "late")
  /\ UNCHANGED << utilVars, limit, screens, file, cardVars, fixed, unmounted, comments, content, mounted, feedVars >>
  /\ History

HookNext ==
  \/ HookUnmount
  \/ HookLoadUnmounted
  \/ HookMount
  \/ HookRefresh
  \/ HookLoadMore
  \/ HookLoadOk
  \/ HookLoadFail

\* ================================================================ microposts slice
\* dispatch(fetchMicroposts(params)): the thunk starts and the pending reducer
\* runs (lines 31-35 and 181-183).  The slice has no guard of its own, and no
\* reducer reads the page the thunk was called with.
SliceFetchPending ==
  /\ variant = "slice"
  /\ Len(inflight) < MaxInflight
  /\ inflight' = Insert(Disturbed(inflight), Request("fetch", 1, FALSE, 0, Snapshot))
  /\ lastOp' = Op("fetch", "issued")
  /\ status' = "loading"
  /\ UNCHANGED << utilVars, limit, screens, file, cardVars, fixed, unmounted, comments, content, mounted, microposts, total_count, loading, refreshing,
                  homeOnly, hookOnly, error, hasMore >>
  /\ History

\* fetchMicroposts.fulfilled, lines 184-190.
SliceFetchFulfilled ==
  /\ variant = "slice"
  /\ \E i \in Pending :
       LET r == inflight[i] IN
       \E resp \in Responses(r.page) :
         /\ status' = "succeeded"
         /\ microposts' = resp.feed_items
         /\ total_count' = resp.total_count
         /\ hasMore' = (Len(resp.feed_items) < resp.total_count)
         /\ error' = FALSE
         /\ inflight' = Disturbed(RemoveAt(inflight, i))
         /\ lastOp' = Done(r, "ok")
  /\ UNCHANGED << utilVars, limit, screens, file, cardVars, fixed, unmounted, comments, content, mounted, loading, refreshing, homeOnly, hookOnly >>
  /\ History

\* fetchMicroposts.rejected, lines 191-194.
SliceFetchRejected ==
  /\ variant = "slice"
  /\ \E i \in Pending :
       LET r == inflight[i] IN
         /\ status' = "failed"
         /\ error' = TRUE
         /\ inflight' = Disturbed(RemoveAt(inflight, i))
         /\ lastOp' = Done(r, "failed")
  /\ UNCHANGED << utilVars, limit, screens, file, cardVars, fixed, unmounted, comments, content, mounted, microposts, total_count, loading, refreshing,
                  homeOnly, hookOnly, hasMore >>
  /\ History

\* resetMicroposts, lines 132-137.
resetMicroposts ==
  /\ variant = "slice"
  /\ microposts' = << >>
  /\ hasMore' = TRUE
  /\ status' = "idle"
  /\ error' = FALSE
  /\ inflight' = Disturbed(inflight)
  /\ lastOp' = Op("reset", "done")
  /\ UNCHANGED << utilVars, limit, screens, file, cardVars, fixed, unmounted, comments, content, mounted, total_count, loading, refreshing, homeOnly, hookOnly >>
  /\ History

\* createMicropost.fulfilled, lines 211-217: the server-returned item.
SliceCreateFulfilled ==
  /\ variant = "slice"
  /\ Len(microposts) < LenCap
  /\ total_count < MaxTotalCount
  /\ \E id \in Ids :
       /\ microposts' = << id >> \o microposts
       /\ lastOp' = [ Op("create", "done") EXCEPT !.arg = id ]
  /\ total_count' = IF total_count = NoMeta THEN NoMeta ELSE total_count + 1
  /\ inflight' = Disturbed(inflight)
  /\ UNCHANGED << utilVars, limit, screens, file, cardVars, fixed, unmounted, comments, content, mounted, loading, refreshing, homeOnly, hookOnly,
                  error, hasMore, status >>
  /\ History

\* deleteMicropost.fulfilled, lines 231-240.
SliceDeleteFulfilled ==
  /\ variant = "slice"
  /\ \E id \in Ids :
       /\ microposts' = SelectSeq(microposts, LAMBDA m : m # id)
       /\ lastOp' = [ Op("delete", "done") EXCEPT !.arg = id ]
  /\ total_count' = IF total_count = NoMeta THEN NoMeta
                    ELSE IF total_count - 1 > 0 THEN total_count - 1 ELSE 0
  /\ inflight' = Disturbed(inflight)
  /\ UNCHANGED << utilVars, limit, screens, file, cardVars, fixed, unmounted, comments, content, mounted, loading, refreshing, homeOnly, hookOnly,
                  error, hasMore, status >>
  /\ History

SliceNext ==
  \/ SliceFetchPending
  \/ SliceFetchFulfilled
  \/ SliceFetchRejected
  \/ resetMicroposts
  \/ SliceCreateFulfilled
  \/ SliceDeleteFulfilled

\* ================================================================ PostCard (part_012)
\* The effect of lines 57-59 on mount: the card shows the likes of its item.
CardMount ==
  /\ variant = "card" /\ ~mounted
  /\ mounted' = TRUE
  /\ likes' = postLikes
  /\ lastOp' = Op("mount", "done")
  /\ UNCHANGED << utilVars, limit, screens, file, fixed, unmounted, comments, content, inflight, feedVars, isLiked, likeCount >>
  /\ History

\* onLike up to its await, lines 61-78: the list is changed first, then the
\* request matching the state before the change is sent.
onLike ==
  /\ variant = "card" /\ mounted
  /\ Len(inflight) < MaxInflight
  /\ IF Me \in Range(likes)
       THEN /\ likes' = SelectSeq(likes, LAMBDA u : u # Me)
            /\ inflight' = Insert(Disturbed(inflight), Request("unlike", 0, TRUE, 0, Snapshot))
            /\ lastOp' = Op("unlike", "issued")
       ELSE /\ likes' = Append(likes, Me)
            /\ inflight' = Insert(Disturbed(inflight), Request("like", 0, FALSE, 0, Snapshot))
            /\ lastOp' = Op("like", "issued")
  /\ UNCHANGED << utilVars, limit, screens, file, fixed, unmounted, comments, content, mounted, feedVars, isLiked, likeCount >>
  /\ History

\* The request resolved: nothing follows the await.
CardLikeOk ==
  /\ variant = "card"
  /\ \E i \in Pending :
       /\ inflight' = RemoveAt(inflight, i)
       /\ lastOp' = Done(inflight[i], "ok")
  /\ UNCHANGED << utilVars, limit, screens, file, fixed, unmounted, comments, content, mounted, feedVars, cardVars >>
  /\ History

\* The request rejected, lines 79-82: the error is logged and alerted.
CardLikeFail ==
  /\ variant = "card"
  /\ \E i \in Pending :
       /\ inflight' = RemoveAt(inflight, i)
       /\ lastOp' = Done(inflight[i], "failed")
  /\ UNCHANGED << utilVars, limit, screens, file, fixed, unmounted, comments, content, mounted, feedVars, cardVars >>
  /\ History

CardNext ==
  \/ CardMount
  \/ onLike
  \/ CardLikeOk
  \/ CardLikeFail

\* ================================================================ PostCard (part_006)
\* handleLike up to its await, lines 18-26: the request is chosen by the
\* isLiked of the render the handler belongs to; nothing is changed yet.
handleLike ==
  /\ variant = "card6"
  /\ Len(inflight) < MaxInflight
  /\ inflight' = Insert(Disturbed(inflight),
                         Request(IF isLiked THEN "unlike" ELSE "like", 0, isLiked, 0, Snapshot))
  /\ lastOp' = Op(IF isLiked THEN "unlike" ELSE "like", "issued")
  /\ UNCHANGED << utilVars, limit, screens, file, fixed, unmounted, comments, content, mounted, feedVars, cardVars >>
  /\ History

\* handleLike after a resolved await, lines 23, 27, 29: the counter moves by
\* one from its current value, the flag becomes the negation of the captured one.
Card6LikeOk ==
  /\ variant = "card6"
  /\ \E i \in Pending :
       LET r == inflight[i] IN
         /\ likeCount' = IF r.flag THEN likeCount - 1 ELSE likeCount + 1
         /\ likeCount' \in (0 - MaxLikes) .. MaxLikes
         /\ isLiked' = ~r.flag
         /\ inflight' = Disturbed(RemoveAt(inflight, i))
         /\ lastOp' = Done(r, "ok")
  /\ UNCHANGED << utilVars, limit, screens, file, fixed, unmounted, comments, content, mounted, feedVars, likes >>
  /\ History

\* handleLike after a rejected await, lines 35-37.
Card6LikeFail ==
  /\ variant = "card6"
  /\ \E i \in Pending :
       /\ inflight' = RemoveAt(inflight, i)
       /\ lastOp' = Done(inflight[i], "failed")
  /\ UNCHANGED << utilVars, limit, screens, file, fixed, unmounted, comments, content, mounted, feedVars, cardVars >>
  /\ History

Card6Next ==
  \/ handleLike
  \/ Card6LikeOk
  \/ Card6LikeFail

\* ================================================================ HomeScreen (home.tsx)
\* feedItems is held in `microposts`.  page (line 25) is never set, so
\* setFeeds keeps its identity and the effect of lines 165-186 runs once.
\* This screen is run against the paged server only.
\* The effect, after fetchUser: setFeeds up to the call of getAll, line 141.
FeedMount ==
  /\ variant = "feed" /\ ~mounted
  /\ mounted' = TRUE
  /\ inflight' = Insert(Disturbed(inflight), Request("loadInitial", page, FALSE, 0, Snapshot))
  /\ lastOp' = Op("mount", "issued")
  /\ UNCHANGED << utilVars, limit, screens, file, cardVars, fixed, unmounted, comments, content, feedVars >>
  /\ History

\* setFeeds after getAll resolved, lines 142-157: the page is appended.
FeedSetFeedsOk ==
  /\ variant = "feed"
  /\ \E i \in Pending :
       LET r == inflight[i] IN
       /\ r.op = "loadInitial"
       /\ \E response \in Responses(r.page) :
         /\ Len(microposts \o response.feed_items) <= LenCap
         /\ microposts' = microposts \o response.feed_items
         /\ total_count' = response.total_count
         /\ inflight' = Disturbed(RemoveAt(inflight, i))
         /\ lastOp' = Done(r, "ok")
  /\ UNCHANGED << utilVars, limit, screens, file, cardVars, fixed, unmounted, comments, content, mounted, loading, refreshing, homeOnly,
                  hookOnly, error, hasMore, status >>
  /\ History

\* getPosts up to the call of getAll, lines 188-193; `limit` is only logged.
\* The closure holds the feedItems of the render it was created in.
getPosts ==
  /\ variant = "feed" /\ mounted
  /\ IF hasMore
       THEN /\ Len(inflight) < MaxInflight
            /\ inflight' = Insert(Disturbed(inflight),
                                   Request("loadMore", page, TRUE, Len(microposts), Snapshot))
            /\ lastOp' = Op("loadMore", "issued")
       ELSE /\ lastOp' = Op("loadMore", "noop")
            /\ UNCHANGED inflight
  /\ UNCHANGED << utilVars, limit, screens, file, cardVars, fixed, unmounted, comments, content, mounted, feedVars >>
  /\ History

\* getPosts after getAll resolved, lines 194-215: nothing is done with a
\* response whose total_count is 0 or missing.
FeedGetPostsOk ==
  /\ variant = "feed"
  /\ \E i \in Pending :
       LET r == inflight[i] IN
       /\ r.op = "loadMore"
       /\ \E response \in Responses(r.page) :
         LET counted == response.total_count # 0 /\ response.total_count # NoMeta
             posts   == IF counted THEN microposts \o response.feed_items ELSE microposts
         IN /\ Len(posts) <= LenCap
            /\ microposts' = posts
            /\ hasMore' = IF counted /\ r.len = response.total_count THEN FALSE ELSE hasMore
            /\ total_count' = response.total_count
            /\ inflight' = Disturbed(RemoveAt(inflight, i))
            /\ lastOp' = Done(r, "ok")
  /\ UNCHANGED << utilVars, limit, screens, file, cardVars, fixed, unmounted, comments, content, mounted, loading, refreshing, homeOnly,
                  hookOnly, error, status >>
  /\ History

\* getAll rejected: the catch blocks of lines 159-161 and 216-218 are empty.
FeedFail ==
  /\ variant = "feed"
  /\ \E i \in Pending :
       /\ inflight' = Disturbed(RemoveAt(inflight, i))
       /\ lastOp' = Done(inflight[i], "failed")
  /\ UNCHANGED << utilVars, limit, screens, file, cardVars, fixed, unmounted, comments, content, mounted, feedVars >>
  /\ History

FeedNext ==
  \/ FeedMount
  \/ FeedSetFeedsOk
  \/ getPosts
  \/ FeedGetPostsOk
  \/ FeedFail

\* ================================================================ slice, item fields
\* The content field of a micropost: as the server first stored it, and as
\* an update rewrote it.
Stored == "stored"

Edited == "edited"

\* The entries of `fields` whose micropost, at the same index of `ids`, has
\* another id than `id`: what the filter of line 232 keeps.
RECURSIVE Others(_, _, _)
Others(fields, ids, id) ==
  IF ids = << >> THEN << >>
  ELSE (IF Head(ids) = id THEN << >> ELSE << Head(fields) >>)
         \o Others(Tail(fields), Tail(ids), id)

\* Array.prototype.findIndex with the predicate m.id === id, line 221; 0
\* stands for -1.
findIndex(ids, id) ==
  IF id \in Range(ids)
    THEN CHOOSE j \in 1..Len(ids) : ids[j] = id /\ \A k \in 1..(j - 1) : ids[k] # id
    ELSE 0

\* createMicropost.fulfilled, lines 211-217, on the initial state of the
\* slice (metadata is null, line 27).
StoreCreateFulfilled ==
  /\ variant = "store"
  /\ Len(microposts) < MaxLen
  /\ \E id \in Ids :
       /\ microposts' = << id >> \o microposts
       /\ lastOp' = [ Op("create", "done") EXCEPT !.arg = id ]
  /\ content' = << Stored >> \o content
  /\ UNCHANGED << utilVars, limit, screens, file, cardVars, fixed, unmounted, comments, mounted, inflight, total_count, loading,
                  refreshing, homeOnly, hookOnly, error, hasMore, status >>
  /\ History

\* Mutant of updateMicropost.fulfilled: every entry with the id of the
\* payload or a smaller one is replaced.
StoreUpdatedContent_UpToId(id) ==
  [ j \in 1..Len(content) |-> IF microposts[j] <= id THEN Edited ELSE content[j] ]

\* The content fields after lines 221-224: the entry at the index found is
\* replaced by the payload.
StoreUpdatedContent(id) ==
  LET index == findIndex(microposts, id)
  IN IF index # 0 THEN [ content EXCEPT ![index] = Edited ] ELSE content

\* updateMicropost.fulfilled, lines 220-228: the payload is the updated item
\* as the server returned it.
StoreUpdateFulfilled ==
  /\ variant = "store"
  /\ \E id \in Ids :
       /\ content' = StoreUpdatedContent(id)
       /\ lastOp' = [ Op("update", "done") EXCEPT !.arg = id ]
  /\ UNCHANGED << utilVars, limit, screens, file, cardVars, fixed, unmounted, comments, mounted, inflight, microposts, total_count,
                  loading, refreshing, homeOnly, hookOnly, error, hasMore, status >>
  /\ History

\* deleteMicropost.fulfilled, lines 231-240.
StoreDeleteFulfilled ==
  /\ variant = "store"
  /\ \E id \in Ids :
       /\ microposts' = SelectSeq(microposts, LAMBDA m : m # id)
       /\ content' = Others(content, microposts, id)
       /\ lastOp' = [ Op("delete", "done") EXCEPT !.arg = id ]
  /\ UNCHANGED << utilVars, limit, screens, file, cardVars, fixed, unmounted, comments, mounted, inflight, total_count, loading,
                  refreshing, homeOnly, hookOnly, error, hasMore, status >>
  /\ History

\* handlePostEvent with eventType 'UPDATE', home.tsx lines 78-89: the map
\* assigns body and file of every post that has the id of payload.new.
handlePostEventUpdate ==
  /\ variant = "store"
  /\ \E id \in Ids :
       /\ content' = [ j \in 1..Len(content) |->
                         IF microposts[j] = id THEN Edited ELSE content[j] ]
       /\ lastOp' = [ Op("update", "done") EXCEPT !.arg = id ]
  /\ UNCHANGED << utilVars, limit, screens, file, cardVars, fixed, unmounted, comments, mounted, inflight, microposts, total_count,
                  loading, refreshing, homeOnly, hookOnly, error, hasMore, status >>
  /\ History

StoreNext ==
  \/ handlePostEventUpdate
  \/ StoreCreateFulfilled
  \/ StoreUpdateFulfilled
  \/ StoreDeleteFulfilled

\* ================================================================ slice, comment counts
\* The comments field of the items of a fulfilled fetch, after
\* transformForPostCard (micropostApi.tsx line 223): an empty array stays, a
\* missing field becomes [{ count: 0 }].
TransformedComments == { << >>, << 0 >> }

CountsPayloads ==
  UNION { [ 1..k -> [ id : Ids, comments : TransformedComments ] ] : k \in 0..MaxPageLen }

\* The screen mounts and dispatches fetchMicroposts: the pending reducer,
\* lines 181-183.
CountsMount ==
  /\ variant = "counts" /\ ~mounted
  /\ mounted' = TRUE
  /\ status' = "loading"
  /\ inflight' = Insert(inflight, Request("fetch", 1, FALSE, 0, NoSnap))
  /\ lastOp' = Op("fetch", "issued")
  /\ UNCHANGED << utilVars, limit, screens, file, cardVars, fixed, unmounted, comments, content, microposts, total_count, loading,
                  refreshing, homeOnly, hookOnly, error, hasMore >>
  /\ History

\* fetchMicroposts.fulfilled, lines 184-190, with the comments of the items.
CountsFetchFulfilled ==
  /\ variant = "counts"
  /\ \E i \in Pending :
       \E payload \in CountsPayloads :
         /\ status' = "succeeded"
         /\ microposts' = [ j \in 1..Len(payload) |-> payload[j].id ]
         /\ comments' = [ j \in 1..Len(payload) |-> payload[j].comments ]
         /\ hasMore' = FALSE
         /\ total_count' = 0
         /\ inflight' = RemoveAt(inflight, i)
         /\ lastOp' = Done(inflight[i], "ok")
  /\ UNCHANGED << utilVars, limit, screens, file, cardVars, fixed, unmounted, mounted, content, loading, refreshing, homeOnly,
                  hookOnly, error >>
  /\ History

\* Mutant of decrementCommentCount: the count is decremented whenever the
\* record exists.
DecrementedComments_Unguarded(c) == IF c # << >> THEN << c[1] - 1 >> ELSE c

\* The comments of the micropost found, after lines 163-165.
DecrementedComments(c) == IF c # << >> /\ c[1] > 0 THEN << c[1] - 1 >> ELSE c

\* The comments of the micropost found, after lines 144-148.
IncrementedComments(c) == IF c = << >> THEN << 1 >> ELSE << c[1] + 1 >>

\* incrementCommentCount, lines 141-159; find returns the first entry with
\* the id.
incrementCommentCount ==
  /\ variant = "counts"
  /\ \E micropostId \in Ids :
       LET index == findIndex(microposts, micropostId)
       IN /\ index # 0 => IncrementedComments(comments[index])[1] <= MaxComments
          /\ comments' = IF index # 0
                            THEN [ comments EXCEPT ![index] = IncrementedComments(@) ]
                            ELSE comments
          /\ lastOp' = [ Op("incrementCommentCount", "done") EXCEPT !.arg = micropostId ]
  /\ UNCHANGED << utilVars, limit, screens, file, cardVars, fixed, unmounted, mounted, content, inflight, feedVars >>
  /\ History

\* decrementCommentCount, lines 160-175.
decrementCommentCount ==
  /\ variant = "counts"
  /\ \E micropostId \in Ids :
       LET index == findIndex(microposts, micropostId)
       IN /\ comments' = IF index # 0
                            THEN [ comments EXCEPT ![index] = DecrementedComments(@) ]
                            ELSE comments
          /\ lastOp' = [ Op("decrementCommentCount", "done") EXCEPT !.arg = micropostId ]
  /\ UNCHANGED << utilVars, limit, screens, file, cardVars, fixed, unmounted, mounted, content, inflight, feedVars >>
  /\ History

CountsNext ==
  \/ CountsMount
  \/ CountsFetchFulfilled
  \/ incrementCommentCount
  \/ decrementCommentCount

\* ================================================================ slice, likes
\* micropostsSlice.tsx with the postLikes of the items: variant "likes".
\* postLikes[j] is state.microposts[j].postLikes, the user ids of its likes.

\* The pages fetchMicroposts can resolve with: each micropost once, and the
\* likes of the current user as the server held them when it answered
\* (transformForPostCard, micropostApi.tsx line 222: postLikes || []).
LikesPayloads ==
  { p \in UNION { [ 1..k -> [ id : Ids, postLikes : { << >>, << Me >> } ] ] : k \in 0..MaxPageLen } :
      \A a, b \in 1..Len(p) : a < b => p[a].id < p[b].id }

\* dispatch(fetchMicroposts): the pending reducer, lines 181-183.
LikesFetchPending ==
  /\ variant = "likes"
  /\ Len(inflight) < MaxInflight
  /\ status' = "loading"
  /\ inflight' = Insert(inflight, Request("fetch", 1, FALSE, 0, NoSnap))
  /\ lastOp' = Op("fetch", "issued")
  /\ UNCHANGED << utilVars, limit, screens, file, cardVars, fixed, unmounted, mounted, comments, content, microposts, total_count,
                  loading, refreshing, homeOnly, hookOnly, error, hasMore >>
  /\ History

\* fetchMicroposts.fulfilled, lines 184-190: the list is replaced by the
\* payload, the items with the postLikes of the response.
LikesFetchFulfilled ==
  /\ variant = "likes"
  /\ \E i \in Pending :
       \E payload \in LikesPayloads :
         /\ status' = "succeeded"
         /\ microposts' = [ j \in 1..Len(payload) |-> payload[j].id ]
         /\ postLikes' = [ j \in 1..Len(payload) |-> payload[j].postLikes ]
         /\ hasMore' = FALSE
         /\ total_count' = 0
         /\ inflight' = RemoveAt(inflight, i)
         /\ lastOp' = Done(inflight[i], "ok")
  /\ UNCHANGED << utilVars, limit, screens, file, cardVars, variant, backend, unmounted, mounted, comments, content, loading,
                  refreshing, homeOnly, hookOnly, error >>
  /\ History

\* fetchMicroposts.rejected, lines 191-194.
LikesFetchRejected ==
  /\ variant = "likes"
  /\ \E i \in Pending :
       /\ status' = "failed"
       /\ error' = TRUE
       /\ inflight' = RemoveAt(inflight, i)
       /\ lastOp' = Done(inflight[i], "failed")
  /\ UNCHANGED << utilVars, limit, screens, file, cardVars, fixed, unmounted, mounted, comments, content, microposts, total_count,
                  loading, refreshing, homeOnly, hookOnly, hasMore >>
  /\ History

\* The likeMicropost thunk resolved (lines 103-108) and its fulfilled
\* reducer, lines 243-250: the first item with the id gets the user pushed
\* on its postLikes.  The pending and rejected thunk have no reducer.
likeMicropost ==
  /\ variant = "likes"
  /\ \E id \in Ids :
       LET index == findIndex(microposts, id)
       IN /\ index # 0 => Len(postLikes[index]) < MaxLikes
          /\ postLikes' = IF index # 0
                             THEN [ postLikes EXCEPT ![index] = Append(@, Me) ]
                             ELSE postLikes
          /\ lastOp' = [ Op("like", "ok") EXCEPT !.arg = id ]
  /\ UNCHANGED << utilVars, limit, screens, file, cardVars, variant, backend, unmounted, mounted, comments, content, inflight,
                  feedVars >>
  /\ History

\* The unlikeMicropost thunk resolved (lines 116-121) and its fulfilled
\* reducer, lines 262-266: the likes of the user are filtered out.
unlikeMicropost ==
  /\ variant = "likes"
  /\ \E id \in Ids :
       LET index == findIndex(microposts, id)
       IN /\ postLikes' = IF index # 0
                             THEN [ postLikes EXCEPT ![index] = SelectSeq(@, LAMBDA u : u # Me) ]
                             ELSE postLikes
          /\ lastOp' = [ Op("unlike", "ok") EXCEPT !.arg = id ]
  /\ UNCHANGED << utilVars, limit, screens, file, cardVars, variant, backend, unmounted, mounted, comments, content, inflight,
                  feedVars >>
  /\ History

LikesNext ==
  \/ LikesFetchPending
  \/ LikesFetchFulfilled
  \/ LikesFetchRejected
  \/ likeMicropost
  \/ unlikeMicropost

\* ================================================================ newPost
\* The NewPost screen (src/app/(main)/newPost.jsx) over the microposts
\* slice: variant "compose".  content is the html of the editor, << >> while
\* it is the empty string; file is the uri of the picked media or null.

\* The feed the home screen has loaded into the slice before the NewPost
\* screen is opened: fetchMicroposts.fulfilled, slice lines 184-190, with a
\* page that holds each micropost once.
ComposeFeeds ==
  { p \in UNION { [ 1..k -> Ids ] : k \in 0..MaxPageLen } :
      \A a, b \in 1..Len(p) : a < b => p[a] < p[b] }

ComposeFeedLoaded ==
  /\ variant = "compose" /\ status = "idle"
  /\ \E feed_items \in ComposeFeeds :
       /\ microposts' = feed_items
       /\ total_count' = Len(feed_items)
       /\ hasMore' = FALSE
  /\ status' = "succeeded"
  /\ lastOp' = Op("fetch", "ok")
  /\ UNCHANGED << utilVars, limit, screens, file, cardVars, fixed, unmounted, mounted, comments, content, inflight, loading,
                  refreshing, homeOnly, hookOnly, error >>
  /\ History

\* handleContentChange, lines 99-101.
handleContentChange ==
  /\ variant = "compose"
  /\ \E html \in { << >>, << Stored >> } :
       /\ html # content
       /\ content' = html
  /\ lastOp' = Op("handleContentChange", "done")
  /\ UNCHANGED << utilVars, limit, screens, file, cardVars, fixed, unmounted, mounted, comments, inflight, feedVars >>
  /\ History

\* onPick with a picked asset, lines 78-91.
onPick ==
  /\ variant = "compose"
  /\ file = "null"
  /\ file' = "uri"
  /\ lastOp' = Op("onPick", "done")
  /\ UNCHANGED << utilVars, limit, screens, cardVars, fixed, unmounted, mounted, comments, content, inflight, feedVars >>
  /\ History

\* Mutant of the validation of onSubmit: every draft is accepted.
ComposeValid_Always == TRUE

\* The validation of onSubmit, line 106, negated: the draft has content or a
\* file.
ComposeValid == content # << >> \/ file # "null"

\* onSubmit of a new post up to the await of line 132: lines 104-137, and
\* the createMicropost thunk up to its await, slice lines 69-71.
onSubmit ==
  /\ variant = "compose"
  /\ IF ComposeValid
       THEN /\ Len(inflight) < MaxInflight
            /\ loading' = TRUE
            /\ inflight' = Insert(inflight, Request("create", 0, FALSE, 0, NoSnap))
            /\ lastOp' = Op("onSubmit", "issued")
       ELSE /\ lastOp' = Op("onSubmit", "invalid")
            /\ UNCHANGED << inflight, loading >>
  /\ UNCHANGED << utilVars, limit, screens, file, cardVars, fixed, unmounted, mounted, comments, content, microposts,
                  total_count, refreshing, homeOnly, hookOnly, error, hasMore, status >>
  /\ History

\* createMicropost.fulfilled, slice lines 211-217, with the item the server
\* returned under a new id, and the finally block of onSubmit, lines 145-147.
ComposeCreateFulfilled ==
  /\ variant = "compose"
  /\ \E i \in Pending :
       \E id \in Ids \ Range(microposts) :
         /\ microposts' = << id >> \o microposts
         /\ total_count' = IF total_count = NoMeta THEN NoMeta ELSE total_count + 1
         /\ loading' = FALSE
         /\ inflight' = RemoveAt(inflight, i)
         /\ lastOp' = [ Done(inflight[i], "ok") EXCEPT !.arg = id ]
  /\ UNCHANGED << utilVars, limit, screens, file, cardVars, fixed, unmounted, mounted, comments, content, refreshing,
                  homeOnly, hookOnly, error, hasMore, status >>
  /\ History

\* The createMicropost thunk rejected (slice lines 73-75; no reducer), and
\* the catch and finally blocks of onSubmit, lines 142-147.
ComposeCreateRejected ==
  /\ variant = "compose"
  /\ \E i \in Pending :
       /\ loading' = FALSE
       /\ inflight' = RemoveAt(inflight, i)
       /\ lastOp' = Done(inflight[i], "failed")
  /\ UNCHANGED << utilVars, limit, screens, file, cardVars, fixed, unmounted, mounted, comments, content, microposts,
                  total_count, refreshing, homeOnly, hookOnly, error, hasMore, status >>
  /\ History

ComposeNext ==
  \/ ComposeFeedLoaded
  \/ handleContentChange
  \/ onPick
  \/ onSubmit
  \/ ComposeCreateFulfilled
  \/ ComposeCreateRejected

\* ================================================================ slice, delete thunk
\* The deleteMicropost thunk of micropostsSlice.tsx over a loaded list:
\* variant "delete".

\* The feed a screen has loaded into the slice: fetchMicroposts.fulfilled,
\* lines 184-190, with a page that holds each micropost once.
DeleteFeedLoaded ==
  /\ variant = "delete" /\ status = "idle"
  /\ \E feed_items \in ComposeFeeds :
       /\ microposts' = feed_items
       /\ total_count' = Len(feed_items)
       /\ hasMore' = FALSE
  /\ status' = "succeeded"
  /\ lastOp' = Op("fetch", "ok")
  /\ UNCHANGED << utilVars, limit, screens, file, cardVars, fixed, unmounted, mounted, comments, content, inflight, loading,
                  refreshing, homeOnly, hookOnly, error >>
  /\ History

\* dispatch(deleteMicropost(id)) up to the await of micropostApi.remove,
\* lines 91-95: no reducer handles deleteMicropost.pending.  The page field
\* of the request holds the id.
DeleteDispatch ==
  /\ variant = "delete"
  /\ Len(inflight) < MaxInflight
  /\ \E id \in Ids :
       /\ inflight' = Insert(inflight, Request("delete", id, FALSE, 0, NoSnap))
       /\ lastOp' = [ Op("delete", "issued") EXCEPT !.arg = id ]
  /\ UNCHANGED << utilVars, limit, screens, file, cardVars, fixed, unmounted, comments, mounted, content, feedVars >>
  /\ History

\* micropostApi.remove resolved, line 96, and deleteMicropost.fulfilled,
\* lines 231-240.
DeleteFulfilled ==
  /\ variant = "delete"
  /\ \E i \in Pending :
       LET r  == inflight[i]
           id == r.page
       IN /\ microposts' = SelectSeq(microposts, LAMBDA m : m # id)
          /\ total_count' = IF total_count - 1 > 0 THEN total_count - 1 ELSE 0
          /\ inflight' = RemoveAt(inflight, i)
          /\ lastOp' = [ Done(r, "ok") EXCEPT !.arg = id ]
  /\ UNCHANGED << utilVars, limit, screens, file, cardVars, fixed, unmounted, comments, content, mounted, loading,
                  refreshing, homeOnly, hookOnly, error, hasMore, status >>
  /\ History

\* micropostApi.remove rejected, lines 97-99: no reducer handles
\* deleteMicropost.rejected.
DeleteRejected ==
  /\ variant = "delete"
  /\ \E i \in Pending :
       /\ inflight' = RemoveAt(inflight, i)
       /\ lastOp' = [ Done(inflight[i], "failed") EXCEPT !.arg = inflight[i].page ]
  /\ UNCHANGED << utilVars, limit, screens, file, cardVars, fixed, unmounted, comments, mounted, content, feedVars >>
  /\ History

DeleteNext ==
  \/ DeleteFeedLoaded
  \/ DeleteDispatch
  \/ DeleteFulfilled
  \/ DeleteRejected

\* ================================================================ profile, delete
\* handleDeletePost of src/app/(main)/profile.tsx over a loaded list:
\* variant "profile".  total_count is metadata.total_count.

\* The first page has been merged into the empty list: fetchMicroposts,
\* lines 73-111, with a page that holds each micropost once and the
\* total_count of a server that holds no other post.  The known ids are
\* those the loads have left: the mount effect empties them when it runs
\* again.
ProfileFeedLoaded ==
  /\ variant = "profile" /\ ~mounted
  /\ mounted' = TRUE
  /\ \E feed_items \in ComposeFeeds :
       /\ microposts' = feed_items
       /\ loadedPostIds' \in SUBSET Range(feed_items)
       /\ total_count' = Len(feed_items)
       /\ totalPages' = calculateTotalPages(Len(feed_items))
  /\ lastOp' = Op("loadInitial", "ok")
  /\ UNCHANGED << utilVars, limit, screens, file, cardVars, fixed, unmounted, comments, content, inflight,
                  loading, refreshing, isRequestInProgress, currentPage, hookOnly, error,
                  hasMore, status >>
  /\ History

\* handleDeletePost up to its await, lines 157-160, called for a post of the
\* list.  The page field of the request holds the id of the post, the len
\* field the metadata.total_count of the render that created the callback
\* (deps, line 186).
handleDeletePost ==
  /\ variant = "profile" /\ mounted
  /\ Len(inflight) < MaxInflight
  /\ \E id \in Range(microposts) :
       /\ inflight' = Insert(inflight, Request("delete", id, FALSE, total_count, NoSnap))
       /\ lastOp' = [ Op("delete", "issued") EXCEPT !.arg = id ]
  /\ UNCHANGED << utilVars, limit, screens, file, cardVars, fixed, unmounted, comments, mounted, content, feedVars >>
  /\ History

\* metadata.total_count after lines 169-174: one less than the count the
\* callback captured.
ProfileDeletedCount(r) == r.len - 1

\* handleDeletePost after a successful await: lines 162-180.
ProfileDeleteOk ==
  /\ variant = "profile"
  /\ \E i \in Pending :
       LET r == inflight[i] IN
         /\ microposts' = SelectSeq(microposts, LAMBDA p : p # r.page)
         /\ loadedPostIds' = loadedPostIds \ { r.page }
         /\ total_count' = ProfileDeletedCount(r)
         /\ totalPages' = calculateTotalPages(r.len - 1)
         /\ inflight' = RemoveAt(inflight, i)
         /\ lastOp' = [ Done(r, "ok") EXCEPT !.arg = r.page ]
  /\ UNCHANGED << utilVars, limit, screens, file, cardVars, fixed, unmounted, comments, content, mounted,
                  loading, refreshing, isRequestInProgress, currentPage, hookOnly, error,
                  hasMore, status >>
  /\ History

\* handleDeletePost after a rejected await: lines 181-184.
ProfileDeleteFail ==
  /\ variant = "profile"
  /\ \E i \in Pending :
       /\ inflight' = RemoveAt(inflight, i)
       /\ lastOp' = [ Done(inflight[i], "failed") EXCEPT !.arg = inflight[i].page ]
  /\ UNCHANGED << utilVars, limit, screens, file, cardVars, fixed, unmounted, comments, mounted, content, feedVars >>
  /\ History

ProfileNext ==
  \/ ProfileFeedLoaded
  \/ handleDeletePost
  \/ ProfileDeleteOk
  \/ ProfileDeleteFail

\* ================================================================ part_008
\* The HomeScreen of src/unnamed/part_008, which asks for the first `limit`
\* posts: variant "shared".  limit is the variable of module scope (line 16),
\* one for all instances of the screen; screens holds the useState values of
\* each instance.  A list of posts is represented by its length.

\* The instances of the screen that can be mounted at one time.
Screens == 1 .. 2

\* highest value of limit followed
MaxLimit == 10 * (MaxInflight + 1)

\* useState of lines 20-23; asked is the limit of the request in flight, 0
\* while there is none.
FreshScreen ==
  [ mounted |-> FALSE, posts |-> 0, hasMore |-> TRUE, loading |-> FALSE, asked |-> 0 ]

\* The lengths of the answers to a request for the first `asked` posts.
SharedResponses(asked) == { n \in 0 .. asked : n % 10 = 0 }

\* getPosts up to its await, lines 54-61, called by a render of screen s
\* when the module variable holds lim: the new value of limit and of the
\* screen.  hasMore and loading are those of the render.
SharedGetPostsStart(s, lim) ==
  IF ~s.hasMore \/ s.loading
    THEN [ limit |-> lim, screen |-> s, ev |-> "noop" ]
    ELSE [ limit |-> lim + 10,
           screen |-> [ s EXCEPT !.loading = TRUE, !.asked = lim + 10 ],
           ev |-> "issued" ]

\* An instance mounts: the effect of lines 26-38 calls getPosts.
SharedMount ==
  /\ variant = "shared"
  /\ \E i \in Screens :
       LET start == SharedGetPostsStart([ FreshScreen EXCEPT !.mounted = TRUE ], limit)
       IN /\ ~screens[i].mounted
          /\ start.limit <= MaxLimit
          /\ limit' = start.limit
          /\ screens' = [ screens EXCEPT ![i] = start.screen ]
          /\ lastOp' = [ Op("mount", start.ev) EXCEPT !.arg = i ]
  /\ UNCHANGED << utilVars, file, cardVars, fixed, unmounted, mounted, comments, content, inflight, feedVars >>
  /\ History

\* onEndReached of line 122 calls getPosts.
SharedGetPosts ==
  /\ variant = "shared"
  /\ \E i \in Screens :
       LET start == SharedGetPostsStart(screens[i], limit)
       IN /\ screens[i].mounted
          /\ start.limit <= MaxLimit
          /\ limit' = start.limit
          /\ screens' = [ screens EXCEPT ![i] = start.screen ]
          /\ lastOp' = [ Op("loadMore", start.ev) EXCEPT !.arg = i ]
  /\ UNCHANGED << utilVars, file, cardVars, fixed, unmounted, mounted, comments, content, inflight, feedVars >>
  /\ History

\* refreshPosts, lines 78-82: limit is reset, setHasMore(true) is queued, and
\* getPosts runs with the hasMore and loading of the render that created it.
refreshPosts ==
  /\ variant = "shared"
  /\ \E i \in Screens :
       LET start == SharedGetPostsStart(screens[i], 10)
       IN /\ screens[i].mounted
          /\ start.limit <= MaxLimit
          /\ limit' = start.limit
          /\ screens' = [ screens EXCEPT ![i] = [ start.screen EXCEPT !.hasMore = TRUE ] ]
          /\ lastOp' = [ Op("refresh", start.ev) EXCEPT !.arg = i ]
  /\ UNCHANGED << utilVars, file, cardVars, fixed, unmounted, mounted, comments, content, inflight, feedVars >>
  /\ History

\* getPosts after a successful await, lines 63-69 and 72-74.
SharedGetPostsOk ==
  /\ variant = "shared"
  /\ \E i \in Screens :
       /\ screens[i].asked # 0
       /\ \E response \in SharedResponses(screens[i].asked) :
            screens' = [ screens EXCEPT ![i] =
                           [ @ EXCEPT !.hasMore = IF screens[i].posts = response THEN FALSE ELSE @,
                                      !.posts = response,
                                      !.loading = FALSE,
                                      !.asked = 0 ] ]
       /\ lastOp' = [ Op("getPosts", "ok") EXCEPT !.arg = i ]
  /\ UNCHANGED << utilVars, limit, file, cardVars, fixed, unmounted, mounted, comments, content, inflight, feedVars >>
  /\ History

\* getPosts after a rejected await, lines 70-74.
SharedGetPostsFail ==
  /\ variant = "shared"
  /\ \E i \in Screens :
       /\ screens[i].asked # 0
       /\ screens' = [ screens EXCEPT ![i] = [ @ EXCEPT !.loading = FALSE, !.asked = 0 ] ]
       /\ lastOp' = [ Op("getPosts", "failed") EXCEPT !.arg = i ]
  /\ UNCHANGED << utilVars, limit, file, cardVars, fixed, unmounted, mounted, comments, content, inflight, feedVars >>
  /\ History

\* An instance is unmounted: its state is discarded, and the continuation
\* of a request it has in flight calls state setters only (lines 63-74),
\* which React ignores.  limit keeps its value.
SharedUnmount ==
  /\ variant = "shared"
  /\ \E i \in Screens :
       /\ screens[i].mounted
       /\ screens' = [ screens EXCEPT ![i] = FreshScreen ]
       /\ lastOp' = [ Op("unmount", "done") EXCEPT !.arg = i ]
  /\ UNCHANGED << utilVars, limit, file, cardVars, fixed, unmounted, mounted, comments, content, inflight, feedVars >>
  /\ History

SharedNext ==
  \/ SharedMount
  \/ SharedGetPosts
  \/ refreshPosts
  \/ SharedGetPostsOk
  \/ SharedGetPostsFail
  \/ SharedUnmount

\* ================================================================ useApiRequest
\* execute up to its await, lines 28-32.  The hook has no guard.
execute ==
  /\ variant = "api"
  /\ Len(inflight) < MaxInflight
  /\ loading' = TRUE
  /\ error' = FALSE
  /\ inflight' = Insert(Disturbed(inflight), Request("execute", 0, FALSE, 0, NoSnap))
  /\ lastOp' = Op("execute", "issued")
  /\ UNCHANGED << utilVars, limit, screens, file, cardVars, fixed, unmounted, comments, content, mounted, microposts, total_count, refreshing, homeOnly,
                  hookOnly, hasMore, status >>
  /\ History

\* execute after a resolved await, lines 33-39 and 50: the result is stored.
ApiExecuteOk ==
  /\ variant = "api"
  /\ \E i \in Pending :
       \E result \in Ids :
         /\ data' = << result >>
         /\ loading' = FALSE
         /\ inflight' = Disturbed(RemoveAt(inflight, i))
         /\ lastOp' = Done(inflight[i], "ok")
  /\ UNCHANGED << utilVars, limit, screens, file, cardVars, fixed, unmounted, comments, content, mounted, microposts, total_count, refreshing, homeOnly,
                  page, error, hasMore, status >>
  /\ History

\* execute after a rejected await, lines 40-50.
ApiExecuteFail ==
  /\ variant = "api"
  /\ \E i \in Pending :
       /\ error' = TRUE
       /\ loading' = FALSE
       /\ inflight' = Disturbed(RemoveAt(inflight, i))
       /\ lastOp' = Done(inflight[i], "failed")
  /\ UNCHANGED << utilVars, limit, screens, file, cardVars, fixed, unmounted, comments, content, mounted, microposts, total_count, refreshing, homeOnly,
                  hookOnly, hasMore, status >>
  /\ History

\* reset, lines 56-60.
ApiReset ==
  /\ variant = "api"
  /\ data' = << >>
  /\ error' = FALSE
  /\ loading' = FALSE
  /\ inflight' = Disturbed(inflight)
  /\ lastOp' = Op("reset", "done")
  /\ UNCHANGED << utilVars, limit, screens, file, cardVars, fixed, unmounted, comments, content, mounted, microposts, total_count, refreshing, homeOnly,
                  page, hasMore, status >>
  /\ History

ApiNext ==
  \/ execute
  \/ ApiExecuteOk
  \/ ApiExecuteFail
  \/ ApiReset

\* ================================================================ useTokenRefresh
\* The useTokenRefresh hook (src/hooks/useTokenRefresh.ts): variant "token".
\* refreshCalls holds, for every call of refreshToken that has passed the
\* guard of line 31 and has not returned, the await it stands at: "getItem"
\* (line 37) or "post" (line 44).  The session store that setTokens writes
\* (line 53) is read by nothing in the hook and is left out.

\* Mutant of RefreshFinally: the flag is left as the call found it.
RefreshFinally_Missing == isRefreshingRef

\* What the finally block, lines 71-73, leaves in isRefreshingRef.current.
RefreshFinally == FALSE

\* A call of refreshToken, by the component or by the interval of line 89,
\* up to its first await: the guard of lines 31-33, then line 36.
refreshToken ==
  /\ variant = "token"
  /\ IF isRefreshingRef
       THEN /\ lastOp' = [ Op("refreshToken", "busy") EXCEPT !.returned = "failure" ]
            /\ UNCHANGED << isRefreshingRef, refreshCalls >>
       ELSE /\ Len(refreshCalls) < MaxInflight
            /\ isRefreshingRef' = TRUE
            /\ refreshCalls' = Append(refreshCalls, "getItem")
            /\ lastOp' = Op("refreshToken", "issued")
  /\ UNCHANGED << notifications, unreadCount, retryVars, limit, screens, file, cardVars, fixed, unmounted,
                  mounted, comments, content, inflight, feedVars >>
  /\ History

\* AsyncStorage.getItem("remember_token") settled, lines 37-44: with a token
\* the request is issued; without one the call returns a failure (line 40);
\* a rejection is caught (lines 63-70).  Both returns run finally.
TokenGetItemSettled ==
  /\ variant = "token"
  /\ \E i \in 1..Len(refreshCalls) :
       /\ refreshCalls[i] = "getItem"
       /\ \E stored \in { "token", "null", "error" } :
            IF stored = "token"
              THEN /\ refreshCalls' = [ refreshCalls EXCEPT ![i] = "post" ]
                   /\ lastOp' = Op("refreshToken", "posted")
                   /\ UNCHANGED isRefreshingRef
              ELSE /\ refreshCalls' = RemoveAt(refreshCalls, i)
                   /\ isRefreshingRef' = RefreshFinally
                   /\ lastOp' = [ Op("refreshToken", IF stored = "null" THEN "noToken" ELSE "failed")
                                    EXCEPT !.returned = "failure" ]
  /\ UNCHANGED << notifications, unreadCount, retryVars, limit, screens, file, cardVars, fixed, unmounted,
                  mounted, comments, content, inflight, feedVars >>
  /\ History

\* ApiService.post("/refresh-token") settled, lines 44-73: a response with
\* tokens returns success (line 59), a response without throws (line 61) and
\* is caught like a request error (lines 63-70); every return runs finally.
TokenPostSettled ==
  /\ variant = "token"
  /\ \E i \in 1..Len(refreshCalls) :
       /\ refreshCalls[i] = "post"
       /\ \E response \in { "tokens", "invalid", "error" } :
            /\ refreshCalls' = RemoveAt(refreshCalls, i)
            /\ isRefreshingRef' = RefreshFinally
            /\ lastOp' = [ Op("refreshToken",
                              CASE response = "tokens" -> "ok"
                                [] response = "invalid" -> "invalid"
                                [] OTHER -> "failed")
                             EXCEPT !.returned = IF response = "tokens" THEN "success" ELSE "failure" ]
  /\ UNCHANGED << notifications, unreadCount, retryVars, limit, screens, file, cardVars, fixed, unmounted,
                  mounted, comments, content, inflight, feedVars >>
  /\ History

TokenNext ==
  \/ refreshToken
  \/ TokenGetItemSettled
  \/ TokenPostSettled

\* ================================================================ notifications slice
\* The notifications slice (src/unnamed/part_015, lines 115-222): variant
\* "notifications".  notifications is state.notifications, each entry with
\* its id and its read flag; status and error are the fields of the slice.

\* What GET /notifications can resolve with: each notification once.
NotificationPayloads ==
  { p \in UNION { [ 1..k -> [ id : Ids, read : BOOLEAN ] ] : k \in 0..MaxPageLen } :
      \A a, b \in 1..Len(p) : a < b => p[a].id < p[b].id }

\* state.notifications.find((n) => n.id === id), line 197: the index of the
\* first entry with the id, 0 for undefined.
FindNotification(ns, id) ==
  IF \E k \in 1..Len(ns) : ns[k].id = id
    THEN CHOOSE k \in 1..Len(ns) : ns[k].id = id /\ \A j \in 1..(k - 1) : ns[j].id # id
    ELSE 0

\* Mutant of DecrementedUnread: the count is lowered without the floor.
DecrementedUnread_Unguarded(c) == c - 1

\* Math.max(0, state.unreadCount - 1), line 200.
DecrementedUnread(c) == IF c - 1 > 0 THEN c - 1 ELSE 0

\* dispatch(fetchNotifications): the pending reducer, lines 178-180.
NotificationsFetchPending ==
  /\ variant = "notifications"
  /\ Len(inflight) < MaxInflight
  /\ status' = "loading"
  /\ inflight' = Insert(inflight, Request("fetch", 1, FALSE, 0, NoSnap))
  /\ lastOp' = Op("fetch", "issued")
  /\ UNCHANGED << isRefreshingRef, refreshCalls, notifications, unreadCount, retryVars, limit, screens, file,
                  cardVars, fixed, unmounted, mounted, comments, content, microposts, total_count,
                  loading, refreshing, homeOnly, hookOnly, error, hasMore >>
  /\ History

\* fetchNotifications.fulfilled, lines 181-184.
NotificationsFetchFulfilled ==
  /\ variant = "notifications"
  /\ \E i \in Pending :
       \E payload \in NotificationPayloads :
         /\ status' = "succeeded"
         /\ notifications' = payload
         /\ inflight' = RemoveAt(inflight, i)
         /\ lastOp' = Op("fetch", "ok")
  /\ UNCHANGED << isRefreshingRef, refreshCalls, unreadCount, retryVars, limit, screens, file,
                  cardVars, fixed, unmounted, mounted, comments, content, microposts, total_count,
                  loading, refreshing, homeOnly, hookOnly, error, hasMore >>
  /\ History

\* fetchNotifications.rejected, lines 185-188.
NotificationsFetchRejected ==
  /\ variant = "notifications"
  /\ \E i \in Pending :
       /\ status' = "failed"
       /\ error' = TRUE
       /\ inflight' = RemoveAt(inflight, i)
       /\ lastOp' = Op("fetch", "failed")
  /\ UNCHANGED << isRefreshingRef, refreshCalls, notifications, unreadCount, retryVars, limit, screens, file,
                  cardVars, fixed, unmounted, mounted, comments, content, microposts, total_count,
                  loading, refreshing, homeOnly, hookOnly, hasMore >>
  /\ History

\* The fetchUnreadCount thunk resolved with the count of the server (lines
\* 139-146) and its fulfilled reducer, lines 191-193.  The pending and the
\* rejected thunk have no reducer; the same holds for the two thunks below.
fetchUnreadCount ==
  /\ variant = "notifications"
  /\ \E count \in 0..MaxPageLen :
       unreadCount' = count
  /\ lastOp' = Op("fetchUnreadCount", "ok")
  /\ UNCHANGED << isRefreshingRef, refreshCalls, notifications, retryVars, limit, screens, file,
                  cardVars, fixed, unmounted, mounted, comments, content, inflight, feedVars >>
  /\ History

\* The reducer resetUnreadCount, lines 171-173.
resetUnreadCount ==
  /\ variant = "notifications"
  /\ unreadCount' = 0
  /\ lastOp' = Op("resetUnreadCount", "done")
  /\ UNCHANGED << isRefreshingRef, refreshCalls, notifications, retryVars, limit, screens, file,
                  cardVars, fixed, unmounted, mounted, comments, content, inflight, feedVars >>
  /\ History

\* The markAsRead thunk resolved (lines 148-155) and its fulfilled reducer,
\* lines 196-202.
markAsRead ==
  /\ variant = "notifications"
  /\ \E notificationId \in Ids :
       LET index == FindNotification(notifications, notificationId)
       IN /\ IF index # 0 /\ ~notifications[index].read
               THEN /\ notifications' = [ notifications EXCEPT ![index].read = TRUE ]
                    /\ unreadCount' = DecrementedUnread(unreadCount)
               ELSE UNCHANGED << notifications, unreadCount >>
          /\ lastOp' = [ Op("markAsRead", "ok") EXCEPT !.arg = notificationId ]
  /\ UNCHANGED << isRefreshingRef, refreshCalls, retryVars, limit, screens, file,
                  cardVars, fixed, unmounted, mounted, comments, content, inflight, feedVars >>
  /\ History

\* The markAllAsRead thunk resolved (lines 157-164) and its fulfilled
\* reducer, lines 205-210.
markAllAsRead ==
  /\ variant = "notifications"
  /\ notifications' = [ k \in 1..Len(notifications) |-> [ notifications[k] EXCEPT !.read = TRUE ] ]
  /\ unreadCount' = 0
  /\ lastOp' = Op("markAllAsRead", "ok")
  /\ UNCHANGED << isRefreshingRef, refreshCalls, retryVars, limit, screens, file,
                  cardVars, fixed, unmounted, mounted, comments, content, inflight, feedVars >>
  /\ History

NotificationsNext ==
  \/ NotificationsFetchPending
  \/ NotificationsFetchFulfilled
  \/ NotificationsFetchRejected
  \/ fetchUnreadCount
  \/ resetUnreadCount
  \/ markAsRead
  \/ markAllAsRead

\* ================================================================ retry
\* retry(fn, maxAttempts, delay) of src/unnamed/part_014, lines 548-568:
\* variant "retry".  pc is where the call stands: "idle" before it, "fn" at
\* the await of line 557, "sleep" at the await of line 562, "returned" or
\* "thrown" once its promise has settled.  The k-th invocation of fn resolves
\* with Value(k) or rejects with Failure(k); outcomes records which.

Value(k) == [ kind |-> "value", of |-> k ]

Failure(k) == [ kind |-> "error", of |-> k ]

\* Mutant of RetryLoop: the loop stops one attempt early.
RetryLoop_OneShort(a, m) == a < m

\* The loop condition of line 555.
RetryLoop(a, m) == a <= m

\* Top of the loop with the counter at a, lastError at err and the invocations
\* so far outs: fn is invoked (line 557) while the condition holds, else
\* lastError is thrown (line 567).
RetryIterate(a, err, outs) ==
  /\ attempt' = a
  /\ lastError' = err
  /\ IF RetryLoop(a, maxAttempts')
       THEN /\ pc' = "fn"
            /\ outcomes' = Append(outs, "pending")
            /\ settled' = settled
            /\ lastOp' = Op("retry", "invoked")
       ELSE /\ pc' = "thrown"
            /\ outcomes' = outs
            /\ settled' = err
            /\ lastOp' = Op("retry", "failed")

\* retry(fn, maxAttempts) is called, lines 548-557.
retry ==
  /\ variant = "retry" /\ pc = "idle"
  /\ \E m \in 0..MaxAttempts :
       /\ maxAttempts' = m
       /\ RetryIterate(1, NoResult, outcomes)
  /\ UNCHANGED << isRefreshingRef, refreshCalls, notifications, unreadCount, limit, screens, file,
                  cardVars, fixed, unmounted, mounted, comments, content, inflight, feedVars >>
  /\ History

\* fn() resolved: return await fn(), line 557.
RetryFnResolved ==
  /\ variant = "retry" /\ pc = "fn"
  /\ pc' = "returned"
  /\ outcomes' = [ outcomes EXCEPT ![Len(outcomes)] = "ok" ]
  /\ settled' = Value(Len(outcomes))
  /\ lastOp' = Op("retry", "ok")
  /\ UNCHANGED << isRefreshingRef, refreshCalls, notifications, unreadCount, attempt, maxAttempts, lastError,
                  limit, screens, file, cardVars, fixed, unmounted, mounted, comments, content, inflight,
                  feedVars >>
  /\ History

\* fn() rejected, lines 558-564: the error is kept; before the last attempt
\* the call sleeps, after it the loop goes on at once (attempt++, line 555).
RetryFnRejected ==
  /\ variant = "retry" /\ pc = "fn"
  /\ IF attempt < maxAttempts
       THEN /\ pc' = "sleep"
            /\ outcomes' = [ outcomes EXCEPT ![Len(outcomes)] = "error" ]
            /\ lastError' = Failure(Len(outcomes))
            /\ lastOp' = Op("retry", "sleeping")
            /\ UNCHANGED << attempt, maxAttempts, settled >>
       ELSE /\ maxAttempts' = maxAttempts
            /\ RetryIterate(attempt + 1, Failure(Len(outcomes)),
                            [ outcomes EXCEPT ![Len(outcomes)] = "error" ])
  /\ UNCHANGED << isRefreshingRef, refreshCalls, notifications, unreadCount, limit, screens, file,
                  cardVars, fixed, unmounted, mounted, comments, content, inflight, feedVars >>
  /\ History

\* sleep(delay) resolved, lines 562 and 555-557: next turn of the loop.
RetrySleepDone ==
  /\ variant = "retry" /\ pc = "sleep"
  /\ maxAttempts' = maxAttempts
  /\ RetryIterate(attempt + 1, lastError, outcomes)
  /\ UNCHANGED << isRefreshingRef, refreshCalls, notifications, unreadCount, limit, screens, file,
                  cardVars, fixed, unmounted, mounted, comments, content, inflight, feedVars >>
  /\ History

RetryNext ==
  \/ retry
  \/ RetryFnResolved
  \/ RetryFnRejected
  \/ RetrySleepDone

\* ================================================================ system
Backends == { [ paged |-> FALSE, n |-> 0 ] } \cup { [ paged |-> TRUE, n |-> k ] : k \in 0 .. MaxN }

\* item.postLikes a card can be mounted with.
InitialLikes == { << >>, << Other >>, << Me >>, << Other, Me >> }

Variants ==
  { "home", "home3", "hook", "feed", "slice", "store", "counts", "likes",
    "compose", "delete", "profile", "shared", "api", "card", "card6", "token",
    "notifications", "retry" }

Init ==
  /\ variant \in Variants
  /\ backend \in Backends
  /\ backend.paged => variant \in { "home", "home3", "hook", "feed" }
  /\ variant = "feed" => backend.paged
  /\ postLikes \in IF variant \in { "card", "card6" } THEN InitialLikes ELSE { << >> }
  /\ likes = << >>
  /\ file = "null"
  /\ limit = 0
  /\ screens = [ i \in Screens |-> FreshScreen ]
  /\ isRefreshingRef = FALSE
  /\ refreshCalls = << >>
  /\ notifications = << >>
  /\ unreadCount = 0
  /\ pc = "idle"
  /\ attempt = 0
  /\ maxAttempts = 0
  /\ lastError = NoResult
  /\ outcomes = << >>
  /\ settled = NoResult
  /\ isLiked = (variant = "card6" /\ Me \in Range(postLikes))
  /\ likeCount = IF variant = "card6" THEN Len(postLikes) ELSE 0
  /\ mounted = FALSE
  /\ unmounted = FALSE
  /\ inflight = << >>
  /\ lastOp = Op("init", "noop")
  /\ loads = [ init |-> FALSE, more |-> 0, clean |-> Tracked ]
  /\ lastRefresh = NoRefresh
  /\ microposts = << >>
  /\ content = << >>
  /\ comments = << >>
  /\ total_count = NoMeta
  /\ loading = FALSE
  /\ refreshing = FALSE
  /\ isRequestInProgress = FALSE
  /\ currentPage = 1
  /\ totalPages = 1
  /\ loadedPostIds = {}
  /\ data = << >>
  /\ page = 1
  /\ error = FALSE
  /\ hasMore = TRUE
  /\ status = "idle"

Next ==
  \/ HomeNext \/ Home3Next \/ HookNext \/ FeedNext
  \/ SliceNext \/ StoreNext \/ CountsNext \/ LikesNext \/ ComposeNext \/ DeleteNext \/ ProfileNext \/ SharedNext
  \/ ApiNext \/ CardNext \/ Card6Next
  \/ TokenNext \/ NotificationsNext \/ RetryNext

Spec == Init /\ [][Next]_vars

\* The components one at a time.  Spec is the disjoint union of the variants,
\* so its behaviours with variant "home" are those of HomeSpec, and likewise
\* for the reducers of the slice that work on the fields of an item together
\* with the NewPost screen, and for the helpers that keep no feed.
HomeInit == Init /\ variant = "home"

HomeSpec == HomeInit /\ [][HomeNext]_vars

ItemsInit == Init /\ variant \in { "store", "counts", "compose" }

ItemsNext == StoreNext \/ CountsNext \/ ComposeNext

ItemsSpec == ItemsInit /\ [][ItemsNext]_vars

HelpersInit == Init /\ variant \in { "token", "notifications", "retry" }

HelpersNext == TokenNext \/ NotificationsNext \/ RetryNext

HelpersSpec == HelpersInit /\ [][HelpersNext]_vars

\* ================================================================ properties
Feed == variant \in { "home", "home3", "hook" }

Cards == variant \in { "card", "card6" }

\* The flag(s) an implementation raises around a fetch.
InFlightFlag ==
  IF variant = "home" THEN isRequestInProgress \/ loading \/ refreshing
  ELSE IF variant \in { "home3", "hook" } THEN loading \/ refreshing
  ELSE status = "loading"

IsSuffix(s, t) == Len(s) <= Len(t) /\ SubSeq(t, Len(t) - Len(s) + 1, Len(t)) = s

\* C1: whatever loadInitial, loadMore and refresh calls are made and whatever
\* the server answers, the feed list never holds two entries with the same id.
C1_NoDuplicateIds == Feed => NoDup(Items)

\* C2: while the fetch of a loadMore call is outstanding, a further loadMore
\* call issues no request.
C2_SecondLoadMoreIsNoOp ==
  [][ ( /\ Feed
        /\ \E i \in 1 .. Len(inflight) : inflight[i].op = "loadMore"
        /\ lastOp'.name = "loadMore" /\ lastOp'.ev \in { "issued", "noop" } )
      => ( lastOp'.ev = "noop" /\ inflight' = inflight ) ]_vars

\* C3: a feed instance has at most one page fetch outstanding at any time.
C3_AtMostOneFetch == Feed => Len(inflight) <= 1

C5_FailureLeavesStateUnchanged ==
  (variant \in { "home", "hook", "slice" } /\ lastOp.ev = "failed" /\ lastOp.solo)
    => Snapshot = lastOp.pre

\* C6: against the paged server (n items, pages of POSTS_PER_PAGE), after the
\* initial load and k successful loadMore calls and nothing else, the list
\* holds min((k+1)*P, n) items, hasMore is true exactly when that is less
\* than n, and a loadMore fetch is only issued while hasMore is true.
C6_PagedScenario ==
  (Tracked /\ loads.clean /\ loads.init)
    => /\ Len(Items) = Min((loads.more + 1) * POSTS_PER_PAGE, backend.n)
       /\ HasMore <=> (Len(Items) < backend.n)
       /\ \A i \in 1 .. Len(inflight) :
            (inflight[i].op = "loadMore" /\ inflight[i].solo) => inflight[i].pre.hasMore

\* C7: in the store, hasMore goes from false to true only by a fulfilled
\* create (resetMicroposts, which empties the store, set aside); here with
\* the reported total_count unchanged by the step.
C7_HasMoreMonotonic ==
  [][ (variant = "slice" /\ ~hasMore /\ hasMore' /\ total_count' = total_count)
      => lastOp'.name \in { "create", "reset" } ]_vars

\* C8: against an unchanged backend, a refresh that completes after another
\* completed refresh, with no loadMore call and no other page answered in
\* between, leaves the list as the first refresh left it.
C8_RefreshIdempotent ==
  [][ (lastOp'.name = "refresh" /\ lastOp'.ev = "ok" /\ lastRefresh.n > 0)
      => Items' = lastRefresh.items ]_vars

\* C9: a successful refresh puts the unknown items of the response in front,
\* in response order, and keeps every previously loaded item in place after
\* them (the response is that of page 1 when the server is paged).
C9_RefreshPrepends ==
  [][ (Feed /\ lastOp'.name = "refresh" /\ lastOp'.ev = "ok")
      => /\ IsSuffix(Items, Items')
         /\ \A i \in 1 .. (Len(Items') - Len(Items)) : Items'[i] \notin KnownIds
         /\ backend.paged =>
              Items' = NotLoaded(PagedResponse(1).feed_items, KnownIds) \o Items ]_vars

\* C10: after a like / unlike call failed (and no other toggle overlapped
\* it), liked and the like count are what they were before toggleLike.
C10_LikeRolledBack ==
  (Cards /\ lastOp.ev = "failed" /\ lastOp.solo)
    => (Liked = lastOp.pre.liked /\ LikeCount = lastOp.pre.likeCount)

\* C11: every fetch completes with a value that tells success from failure:
\* a success result after a successful response, a failure result after a
\* backend error, and never a rejection.
C11_ResultDiscriminated ==
  (variant \in { "home", "home3", "hook", "api", "slice" } /\ lastOp.ev \in { "ok", "failed" })
    => lastOp.returned = (IF lastOp.ev = "ok" THEN "success" ELSE "failure")

\* C12: a refresh, whether it succeeds or fails, leaves the current page of
\* the cursor unchanged, both when it is issued and when its response is
\* handled, so that the next loadMore asks for the page it would have asked
\* for without the refresh.
C12_RefreshKeepsPage ==
  [][(Feed /\ lastOp'.name = "refresh") => Page' = Page]_vars

\* C13: when the screen is unmounted while a page fetch is outstanding, the
\* response that arrives later changes neither the list, nor the known ids,
\* nor the current page, nor hasMore, nor the loading and refreshing flags.
C13_LateResponseDiscarded ==
  [][(Feed /\ unmounted /\ lastOp'.ev = "late")
       => /\ Items' = Items
          /\ KnownIds' = KnownIds
          /\ Page' = Page
          /\ HasMore' = HasMore
          /\ loading' = loading
          /\ refreshing' = refreshing]_vars

\* C14: applying a created item whose id is not in the list puts it at the
\* first position and adds one to totalCount; applying one whose id is
\* already in the list leaves the list unchanged.
C14_CreateInsertsOnce ==
  [][(variant = "slice" /\ lastOp'.name = "create" /\ total_count # NoMeta)
       => IF lastOp'.arg \in Range(microposts)
            THEN microposts' = microposts
            ELSE /\ microposts' = << lastOp'.arg >> \o microposts
                 /\ total_count' = total_count + 1]_vars

\* C15: applying a delete of an id in the list removes that one entry, keeps
\* the order of the others, takes one from totalCount and leaves hasMore
\* equal to (items < totalCount); applying a delete of an id that is not in
\* the list changes neither the list nor totalCount.
C15_DeleteRemovesOne ==
  [][(variant = "slice" /\ lastOp'.name = "delete" /\ total_count > 0)
       => IF lastOp'.arg \in Range(microposts)
            THEN /\ microposts' = SelectSeq(microposts, LAMBDA m : m # lastOp'.arg)
                 /\ Len(microposts') = Len(microposts) - 1
                 /\ total_count' = total_count - 1
                 /\ hasMore' = (Len(microposts') < total_count')
            ELSE /\ microposts' = microposts
                 /\ total_count' = total_count]_vars

\* C16: applying an update changes only entries that have the id of the
\* update: the ids, their positions and the length of the list stay, every
\* entry with another id keeps its fields, and when no entry has the id
\* nothing changes at all.
C16_UpdateInPlace ==
  [][(variant = "store" /\ lastOp'.name = "update")
       => /\ microposts' = microposts
          /\ Len(content') = Len(content)
          /\ \A j \in 1..Len(content) :
               microposts[j] # lastOp'.arg => content'[j] = content[j]
          /\ lastOp'.arg \notin Range(microposts) => content' = content
          /\ total_count' = total_count /\ hasMore' = hasMore]_vars

\* C16 witness: an update has rewritten the entry that has its id, in a list
\* that holds an entry with another id, which still has its stored fields.
C16_Witness ==
  /\ variant = "store" /\ lastOp.name = "update"
  /\ \E j, k \in 1..Len(microposts) :
       /\ microposts[j] = lastOp.arg /\ content[j] = Edited
       /\ microposts[k] # lastOp.arg /\ content[k] = Stored

\* C17: the step in which a card issues its like or unlike request has
\* already flipped the liked flag and moved the like count by one (up when
\* the item becomes liked, down when it becomes unliked), and the request is
\* `like` exactly when the item was not liked before that step.
C17_ToggleOptimistic ==
  [][(Cards /\ lastOp'.ev = "issued" /\ lastOp'.name \in { "like", "unlike" })
       => /\ Liked' = ~Liked
          /\ LikeCount' = IF Liked THEN LikeCount - 1 ELSE LikeCount + 1
          /\ lastOp'.name = IF Liked THEN "unlike" ELSE "like"]_vars

\* C18: a successful loadMore that nothing else overlapped and whose response
\* holds no item that was not already known leaves the current page at the
\* value it had before the loadMore was called.
C18_NoAdvanceWithoutNewItems ==
  [][(/\ Feed /\ ~unmounted
      /\ lastOp'.name = "loadMore" /\ lastOp'.ev = "ok" /\ lastOp'.solo
      /\ KnownIds' = KnownIds)
       => Page' = lastOp'.pre.page]_vars

\* C19: after a successful loadInitial or loadMore whose response reported a
\* positive totalCount, hasMore is true exactly when the list, as it is after
\* the merge, holds fewer items than totalCount.
C19_HasMoreFromTotalCount ==
  (/\ variant \in { "slice", "home3", "feed" } /\ ~unmounted
   /\ lastOp.ev = "ok" /\ lastOp.name \in { "fetch", "loadInitial", "loadMore" }
   /\ total_count > 0)
    => (hasMore <=> Len(Items) < total_count)

\* C20: when a page response reports a totalCount that is zero or missing,
\* hasMore is afterwards true if the page held at least one item and false if
\* the page was empty.  The slice replaces its list by the page; the screen
\* of home.tsx asks the paged server for page `page`.
C20_HasMoreFallback ==
  [][(/\ variant \in { "slice", "feed" }
      /\ lastOp'.ev = "ok" /\ lastOp'.name \in { "fetch", "loadInitial", "loadMore" }
      /\ total_count' \in { 0, NoMeta })
       => LET items == IF variant = "slice" THEN microposts'
                       ELSE PagedResponse(page).feed_items
          IN hasMore' <=> Len(items) > 0]_vars

\* C21: deleting a post that is in the list removes it in the step that
\* issues the backend call, before the call resolves; and a failed call does
\* not change the list, so the item is not put back.
C21_DeleteOptimistic ==
  [][(variant = "delete" /\ lastOp'.name = "delete")
       => /\ (lastOp'.ev = "issued" /\ lastOp'.arg \in Range(microposts))
               => lastOp'.arg \notin Range(microposts')
          /\ lastOp'.ev = "failed" => microposts' = microposts]_vars

\* C22: whatever increments and decrements of the comment count are applied
\* to the items, a decrement of an item whose count is 0 or whose comments
\* array is empty included, no item has a negative comment count.
C22_CommentCountNonNegative ==
  variant = "counts" => \A j \in 1..Len(comments) : comments[j] # << >> => comments[j][1] >= 0

\* C22 witness: a decrement has just been applied to an item whose count is
\* 0 or whose comments array is empty, after it.
C22_Witness ==
  /\ variant = "counts" /\ lastOp.name = "decrementCommentCount"
  /\ findIndex(microposts, lastOp.arg) # 0
  /\ comments[findIndex(microposts, lastOp.arg)] \in { << >>, << 0 >> }

\* C23: the like count a card shows is never negative, also when the like
\* button is pressed again before the backend call of the first press has
\* resolved.
C23_LikeCountNonNegative == Cards => LikeCount >= 0

\* The user likes the first item of the list with the id (slice, likes).
LikedIn(ids, pl, id) ==
  findIndex(ids, id) # 0 /\ Me \in Range(pl[findIndex(ids, id)])

\* C24: a like or unlike leaves the items, their order and the pagination
\* state unchanged, also while a page fetch is in flight; and when such a
\* fetch is merged next, the like state just set on an item that stays in the
\* list is kept.
C24_LikeSurvivesMerge ==
  [][variant = "likes" =>
       /\ lastOp'.name \in { "like", "unlike" } =>
            /\ microposts' = microposts
            /\ hasMore' = hasMore /\ total_count' = total_count
       /\ ( /\ lastOp.name \in { "like", "unlike" }
            /\ inflight # << >>
            /\ lastOp'.name = "fetch" /\ lastOp'.ev = "ok"
            /\ lastOp.arg \in Range(microposts)
            /\ lastOp.arg \in Range(microposts') )
          => LikedIn(microposts', postLikes', lastOp.arg)
               = LikedIn(microposts, postLikes, lastOp.arg)]_vars

\* C25: a loadMore issued right after a loadMore whose fetch failed (no other
\* operation in between or during the failed attempt) asks for the page the
\* failed attempt asked for, the page after the one that was current then.
C25_FailedLoadMoreRetriesSamePage ==
  [][( /\ Feed
       /\ lastOp.name = "loadMore" /\ lastOp.ev = "failed" /\ lastOp.solo
       /\ lastOp'.name = "loadMore" /\ lastOp'.ev = "issued" )
     => \E i \in 1..Len(inflight') :
          /\ inflight'[i].op = "loadMore"
          /\ inflight'[i].page = lastOp.pre.page + 1]_vars

\* C26: submitting a new post with an empty body and no media is rejected by
\* the validation: no request is issued, and the feed list and its
\* total_count stay as they were.
C26_EmptyPostRejected ==
  [][( /\ variant = "compose"
       /\ lastOp'.name = "onSubmit"
       /\ content = << >> /\ file = "null" )
     => /\ lastOp'.ev = "invalid"
        /\ inflight' = inflight
        /\ microposts' = microposts
        /\ total_count' = total_count]_vars

C26_Witness ==
  /\ variant = "compose"
  /\ lastOp.name = "onSubmit" /\ lastOp.ev = "invalid"
  /\ content = << >> /\ file = "null"
  /\ microposts # << >> /\ inflight # << >>

\* C27: the instances of a feed screen do not interfere: a step of one
\* instance leaves the state of the other unchanged, and the request a
\* newly mounted instance issues asks for the first 10 posts, as the request
\* of the first instance ever mounted does.
C27_InstancesIndependent ==
  [][variant = "shared" =>
       \A i \in Screens :
         lastOp'.arg = i =>
           /\ \A j \in Screens \ { i } : screens'[j] = screens[j]
           /\ lastOp'.name = "mount" => screens'[i].asked = 10]_vars

\* C28: a refresh called while no fetch is in flight issues a request for
\* the first page, whatever happened before; and when that request, alone in
\* flight, succeeds, every item of the first page is in the list.
C28_RefreshRecovers ==
  [][/\ ( /\ Feed /\ inflight = << >>
          /\ lastOp'.name = "refresh" )
        => /\ lastOp'.ev = "issued"
           /\ \E i \in 1..Len(inflight') :
                inflight'[i].op = "refresh" /\ inflight'[i].page = 1
     /\ ( /\ Feed /\ backend.paged
          /\ lastOp'.name = "refresh" /\ lastOp'.ev = "ok" /\ lastOp'.solo )
        => Range(PagedResponse(1).feed_items) \subseteq Range(Items')
     /\ ( /\ variant = "shared"
          /\ \A j \in Screens : screens[j].asked = 0
          /\ lastOp'.name = "refresh" )
        => /\ lastOp'.ev = "issued"
           /\ screens'[lastOp'.arg].asked # 0]_vars

\* C29: after a successful initial load the list is the first page of the
\* server in response order, whatever it held before; the known ids are the
\* ids of that page and the current page is 1 (the server is paged and each
\* of its pages holds distinct items).
C29_LoadInitialReplaces ==
  [][( /\ variant \in { "home", "home3", "hook", "feed" }
       /\ backend.paged
       /\ lastOp'.name = "loadInitial" /\ lastOp'.ev = "ok" )
     => /\ Items' = PagedResponse(1).feed_items
        /\ Feed => /\ KnownIds' = Range(PagedResponse(1).feed_items)
                   /\ Page' = 1]_vars

\* The number of initial page-1 loads among the requests.
InitialLoads(reqs) == Cardinality({ i \in 1..Len(reqs) : reqs[i].op = "loadInitial" })

\* C30: merging a successful response starts no further initial page-1 load
\* (the initial loads in flight are those that were, less the one answered)
\* and forgets no known id: the initial load is triggered by the mount only.
C30_InitialLoadOnce ==
  [][( /\ variant \in { "home", "home3", "hook", "feed" }
       /\ ~unmounted
       /\ lastOp'.ev = "ok" )
     => /\ InitialLoads(inflight') + (IF lastOp'.name = "loadInitial" THEN 1 ELSE 0)
             <= InitialLoads(inflight)
        /\ variant = "home" => loadedPostIds \subseteq loadedPostIds']_vars

\* C31: while no fetch is in flight, the known ids are exactly the ids of
\* the items of the list.
C31_KnownIdsMatchList ==
  (variant = "home" /\ mounted /\ ~unmounted /\ inflight = << >>)
    => loadedPostIds = Range(microposts)

\* C32: while a page fetch is outstanding the loading or refreshing
\* indicator is up; the first of two overlapping fetches to complete does
\* not take it down.
C32_IndicatorWhileOutstanding ==
  (variant \in { "hook", "home3" } /\ mounted /\ ~unmounted /\ inflight # << >>)
    => loading \/ refreshing

\* C33: a successful deletion lowers the stored total_count by exactly one,
\* and total_count is never negative, also when deletions overlap (in the
\* slice, whose reducer stops at 0, the count is lowered while it is above 0).
C33_DeleteLowersCountByOne ==
  [][( /\ variant \in { "profile", "delete" }
       /\ lastOp'.name = "delete" /\ lastOp'.ev = "ok"
       /\ total_count # NoMeta )
     => /\ total_count' >= 0
        /\ (variant = "profile" \/ total_count > 0) => total_count' = total_count - 1]_vars

\* C34: in the microposts store an item's postLikes holds at most one entry
\* per user id after any sequence of fulfilled like and unlike actions, and a
\* fulfilled unlike by a user leaves no entry of that user on the item.
C34_OneLikePerUser ==
  variant = "likes" =>
    /\ \A j \in 1..Len(postLikes) :
         Cardinality({ k \in 1..Len(postLikes[j]) : postLikes[j][k] = Me }) <= 1
    /\ (lastOp.name = "unlike" /\ lastOp.ev = "ok")
         => ~LikedIn(microposts, postLikes, lastOp.arg)

\* C35: token refresh is single-flight.  At most one refreshToken call is
\* past the guard at a time; a call made while one is in progress returns a
\* failure and starts nothing; and the in-progress flag is set exactly while
\* a call is in progress, so every exit path (success, invalid response,
\* request error, missing stored token) clears it and a later call gets in.
C35_SingleFlight ==
  [][variant = "token" =>
       /\ Len(refreshCalls') <= 1
       /\ isRefreshingRef' = (refreshCalls' # << >>)
       /\ (refreshCalls # << >> /\ lastOp'.name = "refreshToken" /\ lastOp'.ev \in { "busy", "issued" })
            => /\ lastOp'.ev = "busy" /\ lastOp'.returned = "failure"
               /\ refreshCalls' = refreshCalls
       /\ (refreshCalls = << >> /\ lastOp'.name = "refreshToken")
            => lastOp'.ev = "issued"]_vars

\* A call was turned away while the request of another was outstanding.
C35_Witness ==
  /\ variant = "token"
  /\ lastOp.name = "refreshToken" /\ lastOp.ev = "busy"
  /\ refreshCalls = << "post" >>

\* An unread notification with the id is in the list.
UnreadIn(ns, id) == \E k \in 1..Len(ns) : ns[k].id = id /\ ~ns[k].read

\* C36: in the notifications store unreadCount is never negative; a fulfilled
\* markAsRead lowers it by one at most, and only when the notification is in
\* the list and was unread, and then the notification is read afterwards;
\* marking a read or unknown notification changes nothing; a fulfilled
\* markAllAsRead leaves every notification read and unreadCount at 0.
C36_UnreadCount ==
  [][variant = "notifications" =>
       /\ unreadCount' >= 0
       /\ lastOp'.name = "markAsRead" =>
            /\ unreadCount' \in { unreadCount, unreadCount - 1 }
            /\ unreadCount' = unreadCount - 1 => UnreadIn(notifications, lastOp'.arg)
            /\ UnreadIn(notifications, lastOp'.arg)
                 => /\ ~UnreadIn(notifications', lastOp'.arg)
                    /\ unreadCount > 0 => unreadCount' = unreadCount - 1
            /\ ~UnreadIn(notifications, lastOp'.arg)
                 => notifications' = notifications /\ unreadCount' = unreadCount
       /\ lastOp'.name = "markAllAsRead" =>
            /\ \A k \in 1..Len(notifications') : notifications'[k].read
            /\ [ k \in 1..Len(notifications') |-> notifications'[k].id ]
                 = [ k \in 1..Len(notifications) |-> notifications[k].id ]
            /\ unreadCount' = 0]_vars

\* A notification of the list has been marked as read; the count is 0 while
\* another notification is unread.
C36_Witness ==
  /\ variant = "notifications"
  /\ lastOp.name = "markAsRead"
  /\ \E k \in 1..Len(notifications) : notifications[k].id = lastOp.arg /\ notifications[k].read
  /\ \E k \in 1..Len(notifications) : ~notifications[k].read
  /\ unreadCount = 0

\* C37: retry(fn, maxAttempts) with maxAttempts >= 1 invokes fn at most
\* maxAttempts times; no invocation follows a successful one, and the call
\* returns the result of that invocation; it throws only after maxAttempts
\* failed invocations, and then the error of the last of them.
C37_Retry ==
  (variant = "retry" /\ pc # "idle" /\ maxAttempts >= 1) =>
    /\ Len(outcomes) <= maxAttempts
    /\ \A k \in 1..Len(outcomes) :
         /\ outcomes[k] = "ok" => (k = Len(outcomes) /\ pc = "returned")
         /\ outcomes[k] = "pending" => (k = Len(outcomes) /\ pc = "fn")
    /\ pc = "returned" =>
         /\ outcomes # << >> /\ outcomes[Len(outcomes)] = "ok"
         /\ settled = Value(Len(outcomes))
    /\ pc = "thrown" =>
         /\ Len(outcomes) = maxAttempts
         /\ \A k \in 1..Len(outcomes) : outcomes[k] = "error"
         /\ settled = Failure(maxAttempts)
    /\ pc \in { "fn", "sleep" } => settled = NoResult

\* The call returned the result of an invocation that followed a failed one.
C37_Witness ==
  /\ variant = "retry" /\ pc = "returned"
  /\ maxAttempts = 3
  /\ outcomes = << "error", "ok" >>
  /\ settled = Value(2)

====
